---- MODULE Spec2Model ----
(***************************************************************************)
(* A model of rust-http-server: the response writers (HttpWriter and       *)
(* ChunkedWriter), the framing arbiter send_response, the path sandbox     *)
(* ServerContext::resolve_path and the /files handler.                     *)
(*                                                                         *)
(* Text is modelled at the granularity the code inspects it:               *)
(*  - a header name is a sequence of hyphen-separated words, a header      *)
(*    value a sequence of comma-separated tokens; a word is its lower-case *)
(*    spelling (base) and its capitalisation (caps);                       *)
(*  - a request path is a sequence of one-character strings;               *)
(*  - the stream is the sequence of pieces handed to the socket, one per   *)
(*    write call.                                                          *)
(***************************************************************************)
EXTENDS Integers, Sequences, FiniteSets, TLC

VARIABLES
    writer,     \* the HttpWriter / ChunkedWriter under construction
    stream,     \* the pieces written to the TcpStream so far
    last,       \* the last writer call: operation, state before, result
    response,   \* the HttpWritable handed to send_response
    sent,       \* the outcome of the last send_response
    disk,       \* the filesystem
    context,    \* the ServerContext
    call,       \* the sandbox or handler call being served, and its outcome
    conn,       \* one connection in handle_client: where its loop stands
    parsed      \* the bytes handed to HttpRequest::parse, and its result

vars ==
    <<writer, stream, last, response, sent, disk, context, call, conn, parsed>>

---------------------------------------------------------------------------
(* Bounds of the model.                                                    *)

\* the longest body drawn from BodyText
MaxBody == 2
\* the most headers a header map is given
MaxHeaders == 2
\* the latest write call on the stream that may fail
MaxIoFail == 2
\* the most symbolic links the filesystem follows in one lookup
MaxSymlinks == 2
\* the most tokens an Accept-Encoding header lists
MaxTokens == 2

---------------------------------------------------------------------------
(* Option<T>                                                               *)

None == <<>>
Some(x) == <<x>>
IsSome(o) == o # <<>>
Unwrap(o) == o[1]

RECURSIVE SeqOfSet(_)
\* the sequences that list every element of S once: the orders in which a
\* HashMap holding the keys S may be iterated
SeqOfSet(S) ==
    IF S = {} THEN {<<>>}
    ELSE UNION {{<<x>> \o t : t \in SeqOfSet(S \ {x})} : x \in S}

---------------------------------------------------------------------------
(* Words, header names and header values.                                  *)

\* caps: "lower" (content), "first" (Content), "upper" (CONTENT),
\* "inner" (cOntent: an upper-case letter after the first, and a lower-case
\* letter somewhere)
W(b, c) == [base |-> b, caps |-> c]

Recase(name, c) == [i \in DOMAIN name |-> W(name[i].base, c)]

\* the literals of the code
CONTENT_LENGTH == <<W("content", "first"), W("length", "first")>>
TRANSFER_ENCODING == <<W("transfer", "first"), W("encoding", "first")>>
CONTENT_TYPE == <<W("content", "first"), W("type", "first")>>
CONTENT_ENCODING == <<W("content", "first"), W("encoding", "first")>>
CONTENT_RANGE == <<W("content", "first"), W("range", "first")>>
CONNECTION == <<W("connection", "first")>>
\* "content-length", the key HttpErrorResponse::new inserts
content_length_lc == Recase(CONTENT_LENGTH, "lower")

\* a one-token value
V(s) == <<W(s, "lower")>>
CHUNKED == V("chunked")

\* str::eq_ignore_ascii_case
EqIgnoreAsciiCase(a, b) ==
    /\ Len(a) = Len(b)
    /\ \A i \in DOMAIN a : a[i].base = b[i].base

\* titlecase's has_internal_caps: an upper-case letter after the first
HasInternalCaps(w) == w.caps \in {"inner", "upper"}

\* titlecase's process_word (no word of a header name of this model is one
\* of the style's small words): a word with internal capitals is left as
\* it is, any other word gets its first letter capitalised
ProcessWord(w) == IF HasInternalCaps(w) THEN w ELSE W(w.base, "first")

\* Titlecase::titlecase of the titlecase crate, as write_header uses it: an
\* input with no lower-case letter at all is lower-cased first, then every
\* word goes through process_word
Titlecase(name) ==
    LET yelling == \A i \in DOMAIN name : name[i].caps = "upper"
        src == IF yelling THEN Recase(name, "lower") ELSE name
    IN  [i \in DOMAIN src |-> ProcessWord(src[i])]

---------------------------------------------------------------------------
(* Numbers as text.                                                        *)

Digit == <<"0", "1", "2", "3", "4", "5", "6", "7", "8", "9",
           "a", "b", "c", "d", "e", "f">>

RECURSIVE Fmt(_, _)
Fmt(n, radix) ==
    IF n < radix THEN Digit[n + 1]
    ELSE Fmt(n \div radix, radix) \o Digit[(n % radix) + 1]

\* usize::to_string
UsizeToString(n) == Fmt(n, 10)
\* format!("{:x}", n)
ToHex(n) == Fmt(n, 16)

\* the numbers whose decimal text the model can meet
ParseRange == 0 .. 99

\* the texts str::parse::<usize> reads as n: the decimal digits, with an
\* optional '+' or a leading zero
ParseTexts(n) ==
    {UsizeToString(n), "+" \o UsizeToString(n), "0" \o UsizeToString(n)}

\* the number each such text is read as
ParseTable ==
    [t \in UNION {ParseTexts(n) : n \in ParseRange} |->
        CHOOSE n \in ParseRange : t \in ParseTexts(n)]

\* str::parse::<usize> of a header value: Some(n) for an optional '+' and
\* decimal digits (leading zeros allowed), None for anything else (a sign
\* '-', a letter, a comma-separated list, the empty string)
ParseUsize(value) ==
    IF Len(value) = 1 /\ value[1].caps = "lower"
       /\ value[1].base \in DOMAIN ParseTable
    THEN Some(ParseTable[value[1].base])
    ELSE None

---------------------------------------------------------------------------
(* Wire types.                                                             *)

HttpVersion == {"Http1_0", "Http1_1"}

\* impl Display for HttpVersion
VersionText(v) == IF v = "Http1_0" THEN "HTTP/1.0" ELSE "HTTP/1.1"

HttpStatusCode ==
    {"Ok", "Created", "NoContent", "PartialContent", "BadRequest",
     "Forbidden", "NotFound", "MethodNotAllowed", "InternalServerError",
     "NotImplemented"}

\* impl Display for HttpStatusCode
StatusText(s) ==
    CASE s = "Ok" -> "200 OK"
      [] s = "NotFound" -> "404 Not Found"
      [] s = "BadRequest" -> "400 Bad Request"
      [] s = "MethodNotAllowed" -> "405 Method Not Allowed"
      [] s = "Created" -> "201 Created"
      [] s = "NoContent" -> "204 No Content"
      [] s = "PartialContent" -> "206 Partial Content"
      [] s = "InternalServerError" -> "500 Internal Server Error"
      [] s = "Forbidden" -> "403 Forbidden"
      [] s = "NotImplemented" -> "501 Not Implemented"

\* the enum's discriminant (status as u16)
StatusCode(s) ==
    CASE s = "Ok" -> 200
      [] s = "Created" -> 201
      [] s = "NoContent" -> 204
      [] s = "PartialContent" -> 206
      [] s = "BadRequest" -> 400
      [] s = "Forbidden" -> 403
      [] s = "NotFound" -> 404
      [] s = "MethodNotAllowed" -> 405
      [] s = "InternalServerError" -> 500
      [] s = "NotImplemented" -> 501

\* format!("{} {}\r\n", version, status)
StatusLineText(version, status) ==
    VersionText(version) \o " " \o StatusText(status) \o "\r\n"

WriterState ==
    {"Initial", "StatusWritten", "HeadersOpen", "HeadersClosed",
     "BodyWritten", "Failed"}

\* WriterError, and Ok
Result(tag) == [tag |-> tag, declared |-> 0, actual |-> 0]
Ok == Result("Ok")
InvalidState == Result("InvalidState")
MissingHeader == Result("MissingHeader")
InvalidHeader == Result("InvalidHeader")
IoError == Result("IoError")
ContentLengthMismatch(d, a) ==
    [tag |-> "ContentLengthMismatch", declared |-> d, actual |-> a]

---------------------------------------------------------------------------
(* The stream: one piece per write call.                                   *)

Piece(t, text, name, value, data) ==
    [t |-> t, text |-> text, name |-> name, value |-> value, data |-> data]

\* the status line, as formatted
PStatus(line) == Piece("status", line, <<>>, <<>>, <<>>)
\* format!("{}: {}\r\n", key, value)
PHeader(k, v) == Piece("header", ": \r\n", k, v, <<>>)
\* b"\r\n"
PCrlf == Piece("crlf", "\r\n", <<>>, <<>>, <<>>)
\* raw body bytes
PData(bytes) == Piece("data", "", <<>>, <<>>, bytes)
\* format!("{:x}\r\n", chunk_size)
PChunkSize(n) == Piece("chunksize", ToHex(n) \o "\r\n", <<>>, <<>>, <<>>)
\* "0\r\n\r\n"
PLast == Piece("last", "0\r\n\r\n", <<>>, <<>>, <<>>)

\* the pieces of a header map iterated in the given order
HeaderPieces(headers, order) ==
    [i \in DOMAIN order |-> PHeader(order[i], headers[order[i]])]

\* Writes the pieces one call after the other and then flushes; call number
\* ioFail (0: none) returns an error and nothing of it reaches the stream.
Emit(pieces, ioFail) ==
    IF ioFail = 0 \/ ioFail > Len(pieces) + 1
    THEN [r |-> Ok, out |-> pieces]
    ELSE [r |-> IoError, out |-> SubSeq(pieces, 1, ioFail - 1)]

---------------------------------------------------------------------------
(* HttpWriter (writer/standard.rs).  Every operation takes the writer and  *)
(* returns the writer after the call and the call's result.                *)

\* HttpWriter::new / ChunkedWriter::new
NewWriter(kind) ==
    [kind |-> kind, state |-> "Initial", status_line |-> None,
     headers |-> <<>>, body |-> None]

\* self.headers.retain(|key, _| !key.eq_ignore_ascii_case(&a));
\* self.headers.insert(normalized_key, b)
InsertHeader(headers, a, b) ==
    LET normalized_key == Titlecase(a)
        kept == {k \in DOMAIN headers : ~EqIgnoreAsciiCase(k, a)}
    IN  [k \in kept \cup {normalized_key} |->
            IF k = normalized_key THEN b ELSE headers[k]]

HttpWriter_write_status_line(w, version, status) ==
    IF w.state # "Initial"
    THEN [w |-> [w EXCEPT !.state = "Failed"], r |-> InvalidState]
    ELSE [w |-> [w EXCEPT !.status_line = Some(StatusLineText(version, status)),
                          !.state = "StatusWritten"],
          r |-> Ok]

HttpWriter_write_header(w, a, b) ==
    IF w.state # "StatusWritten" /\ w.state # "HeadersOpen"
    THEN [w |-> [w EXCEPT !.state = "Failed"], r |-> InvalidState]
    ELSE [w |-> [w EXCEPT !.state = "HeadersOpen",
                          !.headers = InsertHeader(w.headers, a, b)],
          r |-> Ok]

HttpWriter_finish_headers(w) ==
    IF w.state # "HeadersOpen" /\ w.state # "StatusWritten"
    THEN [w |-> [w EXCEPT !.state = "Failed"], r |-> InvalidState]
    ELSE [w |-> [w EXCEPT !.state = "HeadersClosed"], r |-> Ok]

HttpWriter_write_body(w, body) ==
    IF w.state # "HeadersClosed"
    THEN [w |-> [w EXCEPT !.state = "Failed"], r |-> InvalidState]
    ELSE [w |-> [w EXCEPT !.body = Some(body), !.state = "BodyWritten"],
          r |-> Ok]

HttpWriter_pieces_blank_first(w, order) ==
    <<PStatus(Unwrap(w.status_line))>>
    \o <<PCrlf>>
    \o HeaderPieces(w.headers, order)
    \o (IF IsSome(w.body) THEN <<PData(Unwrap(w.body))>> ELSE <<>>)

\* the pieces complete_write hands to the stream once its checks passed
HttpWriter_pieces(w, order) ==
    <<PStatus(Unwrap(w.status_line))>>
    \o HeaderPieces(w.headers, order)
    \o <<PCrlf>>
    \o (IF IsSome(w.body) THEN <<PData(Unwrap(w.body))>> ELSE <<>>)

\* complete_write without the comparison of the declared length with the
\* body held
HttpWriter_complete_write_unchecked(w, order, ioFail) ==
    IF w.state # "BodyWritten" /\ w.state # "HeadersClosed"
    THEN [r |-> InvalidState, out |-> <<>>]
    ELSE IF ~IsSome(w.status_line)
    THEN [r |-> InvalidState, out |-> <<>>]
    ELSE IF CONTENT_LENGTH \in DOMAIN w.headers
    THEN IF ~IsSome(ParseUsize(w.headers[CONTENT_LENGTH]))
         THEN [r |-> InvalidHeader, out |-> <<>>]
         ELSE Emit(HttpWriter_pieces(w, order), ioFail)
    ELSE [r |-> MissingHeader, out |-> <<>>]

\* complete_write consumes the writer; order is the order in which the
\* HashMap yields the headers. Returns the result and the pieces written.
HttpWriter_complete_write(w, order, ioFail) ==
    IF w.state # "BodyWritten" /\ w.state # "HeadersClosed"
    THEN [r |-> InvalidState, out |-> <<>>]
    ELSE IF ~IsSome(w.status_line)
    THEN [r |-> InvalidState, out |-> <<>>]
    ELSE IF CONTENT_LENGTH \in DOMAIN w.headers
    THEN LET body_len == IF IsSome(w.body) THEN Len(Unwrap(w.body)) ELSE 0
             content_length == ParseUsize(w.headers[CONTENT_LENGTH])
         IN  IF ~IsSome(content_length)
             THEN [r |-> InvalidHeader, out |-> <<>>]
             ELSE IF Unwrap(content_length) # body_len
             THEN [r |-> ContentLengthMismatch(Unwrap(content_length), body_len),
                   out |-> <<>>]
             ELSE Emit(HttpWriter_pieces(w, order), ioFail)
    ELSE [r |-> MissingHeader, out |-> <<>>]

---------------------------------------------------------------------------
(* ChunkedWriter (writer/chunked.rs).                                      *)

ChunkedWriter_write_status_line(w, version, status) ==
    IF w.state # "Initial"
    THEN [w |-> [w EXCEPT !.state = "Failed"], r |-> InvalidState]
    ELSE [w |-> [w EXCEPT !.status_line = Some(StatusLineText(version, status)),
                          !.state = "StatusWritten"],
          r |-> Ok]

ChunkedWriter_write_header(w, key, value) ==
    IF w.state # "StatusWritten" /\ w.state # "HeadersOpen"
    THEN [w |-> [w EXCEPT !.state = "Failed"], r |-> InvalidState]
    ELSE [w |-> [w EXCEPT !.state = "HeadersOpen",
                          !.headers = InsertHeader(w.headers, key, value)],
          r |-> Ok]

ChunkedWriter_finish_headers_unfailing(w) ==
    IF w.state # "StatusWritten" /\ w.state # "HeadersOpen"
    THEN [w |-> w, r |-> InvalidState]
    ELSE [w |-> [w EXCEPT !.state = "HeadersClosed"], r |-> Ok]

ChunkedWriter_finish_headers(w) ==
    IF w.state # "StatusWritten" /\ w.state # "HeadersOpen"
    THEN [w |-> [w EXCEPT !.state = "Failed"], r |-> InvalidState]
    ELSE [w |-> [w EXCEPT !.state = "HeadersClosed"], r |-> Ok]

\* write_body without its state guard
ChunkedWriter_write_body_anystate(w, body) ==
    [w |-> [w EXCEPT !.body = IF body # <<>> THEN Some(body) ELSE w.body,
                     !.state = "BodyWritten"],
     r |-> Ok]

ChunkedWriter_write_body(w, body) ==
    IF w.state # "HeadersClosed"
    THEN [w |-> [w EXCEPT !.state = "Failed"], r |-> InvalidState]
    ELSE [w |-> [w EXCEPT !.body = IF body # <<>> THEN Some(body) ELSE w.body,
                          !.state = "BodyWritten"],
          r |-> Ok]

\* write_chunk with the size formatted by "{}" instead of "{:x}"
write_chunk_decimal(data) ==
    <<Piece("chunksize", UsizeToString(Len(data)) \o "\r\n", <<>>, <<>>, <<>>),
      PData(data), PCrlf>>

\* ChunkedWriter::write_chunk: the size line, the data, CRLF
write_chunk(data) ==
    <<PChunkSize(Len(data)), PData(SubSeq(data, 1, Len(data))), PCrlf>>

ChunkedWriter_pieces_chunking_none(w, order) ==
    <<PStatus(Unwrap(w.status_line))>>
    \o HeaderPieces(w.headers, order)
    \o <<PCrlf>>
    \o write_chunk(IF IsSome(w.body) THEN Unwrap(w.body) ELSE <<>>)
    \o <<PLast>>

ChunkedWriter_pieces(w, order) ==
    <<PStatus(Unwrap(w.status_line))>>
    \o HeaderPieces(w.headers, order)
    \o <<PCrlf>>
    \o (IF IsSome(w.body) THEN write_chunk(Unwrap(w.body)) ELSE <<>>)
    \o <<PLast>>

ChunkedWriter_complete_write(w, order, ioFail) ==
    IF w.state # "BodyWritten" /\ w.state # "HeadersClosed"
    THEN [r |-> InvalidState, out |-> <<>>]
    ELSE IF ~IsSome(w.status_line)
    THEN [r |-> InvalidState, out |-> <<>>]
    ELSE IF DOMAIN w.headers = {}
    THEN [r |-> InvalidState, out |-> <<>>]
    ELSE IF ~(TRANSFER_ENCODING \in DOMAIN w.headers
              /\ w.headers[TRANSFER_ENCODING] = CHUNKED)
    THEN [r |-> InvalidState, out |-> <<>>]
    ELSE IF CONTENT_LENGTH \in DOMAIN w.headers
    THEN [r |-> InvalidState, out |-> <<>>]
    ELSE Emit(ChunkedWriter_pieces(w, order), ioFail)

---------------------------------------------------------------------------
(* The framing arbiter: send_response and decide_chunking                  *)
(* (writer/standard.rs).  A response is an HttpWritable: version, status,  *)
(* headers() and the bytes of body().  ord1, ord2 and ord3 are the orders  *)
(* in which the three HashMaps of a call are iterated: the response's      *)
(* headers, the effective map of the chunked path, the writer's map.       *)

\* headers.iter().find(|(k, _)| k.eq_ignore_ascii_case(key)): the value of
\* the first matching key in iteration order
get_header_ci(headers, order, key) ==
    LET hits == {i \in DOMAIN order : EqIgnoreAsciiCase(order[i], key)}
    IN  IF hits = {} THEN None
        ELSE Some(headers[order[CHOOSE i \in hits : \A j \in hits : i <= j]])

\* value.split(',').map(trim).any(|t| t.eq_ignore_ascii_case(token))
contains_token_ci(value, token) ==
    \E i \in DOMAIN value : value[i].base = token

decide_chunking(version, headers, order) ==
    LET te == get_header_ci(headers, order, TRANSFER_ENCODING)
        te_has_chunked == IsSome(te) /\ contains_token_ci(Unwrap(te), "chunked")
        cl_present == IsSome(get_header_ci(headers, order, CONTENT_LENGTH))
    IN  IF version = "Http1_0"
        THEN [use_chunked |-> FALSE, use_content_length |-> TRUE,
              warning |-> te_has_chunked]
        ELSE IF te_has_chunked
        THEN [use_chunked |-> TRUE, use_content_length |-> FALSE,
              warning |-> cl_present]
        ELSE [use_chunked |-> FALSE, use_content_length |-> TRUE,
              warning |-> FALSE]

\* filter(|token| !token.eq_ignore_ascii_case("chunked") && !token.is_empty())
OtherToken(t) == t.base # "chunked" /\ t.base # ""

\* the effective header map of the chunked path: Content-Length dropped,
\* Transfer-Encoding rebuilt from the tokens of the Transfer-Encoding header
\* iterated last, with chunked appended
EffectiveHeaders(headers, ord1) ==
    LET tes == {i \in DOMAIN ord1 : EqIgnoreAsciiCase(ord1[i], TRANSFER_ENCODING)}
        transfer_tokens ==
            IF tes = {} THEN <<>>
            ELSE SelectSeq(headers[ord1[CHOOSE i \in tes : \A j \in tes : j <= i]],
                           OtherToken)
        kept == {k \in DOMAIN headers :
                    /\ ~EqIgnoreAsciiCase(k, CONTENT_LENGTH)
                    /\ ~EqIgnoreAsciiCase(k, TRANSFER_ENCODING)}
    IN  [k \in kept \cup {TRANSFER_ENCODING} |->
            IF k = TRANSFER_ENCODING THEN transfer_tokens \o CHUNKED
            ELSE headers[k]]

RECURSIVE ChunkedWriteHeaders(_, _, _, _)
\* for (k, v) in effective { writer.write_header(k, v)?; }
ChunkedWriteHeaders(w, headers, order, i) ==
    IF i > Len(order) THEN [w |-> w, r |-> Ok]
    ELSE LET res == ChunkedWriter_write_header(w, order[i], headers[order[i]])
         IN  IF res.r # Ok THEN res
             ELSE ChunkedWriteHeaders(res.w, headers, order, i + 1)

\* the standard path forwarding Transfer-Encoding like any other header
SkipNothing(k) == FALSE

\* the standard path passes every header but Transfer-Encoding to the writer
SkipTransferEncoding(k) == EqIgnoreAsciiCase(k, TRANSFER_ENCODING)

RECURSIVE HttpWriteHeaders(_, _, _, _)
\* for (k, v) in &headers { if k is Transfer-Encoding { continue; }
\*                          writer.write_header(k, v)?; }
HttpWriteHeaders(w, headers, order, i) ==
    IF i > Len(order) THEN [w |-> w, r |-> Ok]
    ELSE IF SkipTransferEncoding(order[i])
    THEN HttpWriteHeaders(w, headers, order, i + 1)
    ELSE LET res == HttpWriter_write_header(w, order[i], headers[order[i]])
         IN  IF res.r # Ok THEN res
             ELSE HttpWriteHeaders(res.w, headers, order, i + 1)

\* send_response up to, and without, its call of complete_write: the writer
\* and the result so far (each step returns early on an error)
Prepared(resp, ord1, ord2) ==
    LET decision == decide_chunking(resp.version, resp.headers, ord1)
    IN  IF decision.use_chunked
        THEN LET a == ChunkedWriter_write_status_line(
                          NewWriter("ChunkedWriter"), resp.version, resp.status)
                 b == IF a.r # Ok THEN a
                      ELSE ChunkedWriteHeaders(
                               a.w, EffectiveHeaders(resp.headers, ord1), ord2, 1)
                 c == IF b.r # Ok THEN b ELSE ChunkedWriter_finish_headers(b.w)
             IN  IF c.r # Ok THEN c ELSE ChunkedWriter_write_body(c.w, resp.body)
        ELSE LET a == HttpWriter_write_status_line(
                          NewWriter("HttpWriter"), resp.version, resp.status)
                 b == IF a.r # Ok THEN a
                      ELSE HttpWriteHeaders(a.w, resp.headers, ord1, 1)
                 c == IF b.r # Ok THEN b ELSE HttpWriter_finish_headers(b.w)
             IN  IF c.r # Ok THEN c ELSE HttpWriter_write_body(c.w, resp.body)

\* the end of send_response: writer.complete_write()?, unless an earlier
\* step returned its error; the result, the pieces written, whether a
\* warning was logged and which framing was chosen
Finish(decision, p, ord3, ioFail) ==
    LET done == IF p.r # Ok THEN [r |-> p.r, out |-> <<>>]
                ELSE IF decision.use_chunked
                THEN ChunkedWriter_complete_write(p.w, ord3, ioFail)
                ELSE HttpWriter_complete_write(p.w, ord3, ioFail)
    IN  [r |-> done.r, out |-> done.out, warning |-> decision.warning,
         chunked |-> decision.use_chunked]

send_response(resp, ord1, ord2, ord3, ioFail) ==
    Finish(decide_chunking(resp.version, resp.headers, ord1),
           Prepared(resp, ord1, ord2), ord3, ioFail)

---------------------------------------------------------------------------
(* Text of request paths: a str is a sequence of one-character strings.    *)

\* the printable ASCII characters, from 0x20 to 0x7e (the grave accent, which
\* a string cannot hold, is written out)
Ascii ==
    <<" ", "!", "\"", "#", "$", "%", "&", "'", "(", ")", "*", "+", ",", "-",
      ".", "/", "0", "1", "2", "3", "4", "5", "6", "7", "8", "9", ":", ";",
      "<", "=", ">", "?", "@", "A", "B", "C", "D", "E", "F", "G", "H", "I",
      "J", "K", "L", "M", "N", "O", "P", "Q", "R", "S", "T", "U", "V", "W",
      "X", "Y", "Z", "[", "\\", "]", "^", "_", "<grave>", "a", "b", "c", "d", "e",
      "f", "g", "h", "i", "j", "k", "l", "m", "n", "o", "p", "q", "r", "s",
      "t", "u", "v", "w", "x", "y", "z", "{", "|", "}", "~">>

\* the character of an ASCII byte; a control character is written <ctl>
CharOf(byte) ==
    IF byte >= 32 /\ byte <= 126 THEN Ascii[byte - 31] ELSE "<ctl>"

\* char::is_ascii_control
IsAsciiControl(c) == c = "<ctl>"

\* the byte of a printable character
ByteOf(c) == 31 + CHOOSE i \in DOMAIN Ascii : Ascii[i] = c

\* char::to_digit(16)
ToDigit16(c) ==
    LET b == ByteOf(c)
    IN  IF b >= 48 /\ b <= 57 THEN Some(b - 48)
        ELSE IF b >= 65 /\ b <= 70 THEN Some(b - 55)
        ELSE IF b >= 97 /\ b <= 102 THEN Some(b - 87)
        ELSE None

\* char::to_ascii_lowercase
ToAsciiLowercase(c) ==
    LET b == ByteOf(c)
    IN  IF b >= 65 /\ b <= 90 THEN CharOf(b + 32) ELSE c

RECURSIVE Str(_)
\* the sequence of characters as one string
Str(chars) == IF chars = <<>> THEN "" ELSE Head(chars) \o Str(Tail(chars))

\* Result<String, ()>
DecodeOk(s) == [ok |-> TRUE, s |-> s]
DecodeErr == [ok |-> FALSE, s |-> <<>>]

RECURSIVE percent_decode_from(_, _, _)
\* the loop of percent_decode at index i (from 1), out being the bytes
\* pushed so far; a byte above 0x7f is never part of valid UTF-8 here, as
\* no input of the model encodes a multi-byte character
percent_decode_from(bytes, i, out) ==
    IF i > Len(bytes) THEN DecodeOk(out)
    ELSE IF bytes[i] = "%"
    THEN IF i + 2 > Len(bytes) THEN DecodeErr
         ELSE LET high_nibble == ToDigit16(bytes[i + 1])
                  low_nibble == ToDigit16(bytes[i + 2])
              IN  IF ~IsSome(high_nibble) \/ ~IsSome(low_nibble) THEN DecodeErr
                  ELSE LET byte == 16 * Unwrap(high_nibble) + Unwrap(low_nibble)
                       IN  IF byte > 127 THEN DecodeErr
                           ELSE percent_decode_from(bytes, i + 3,
                                                    Append(out, CharOf(byte)))
    ELSE percent_decode_from(bytes, i + 1, Append(out, bytes[i]))

percent_decode(input) == percent_decode_from(input, 1, <<>>)

---------------------------------------------------------------------------
(* std::path on a Unix build: the separator is '/', there is no Prefix.    *)

RECURSIVE Split(_, _)
\* str::split(sep): the pieces between the separators, empty ones included
Split(s, sep) ==
    IF \A i \in DOMAIN s : s[i] # sep THEN <<s>>
    ELSE LET at == CHOOSE i \in DOMAIN s :
                       s[i] = sep /\ \A j \in 1 .. i - 1 : s[j] # sep
         IN  <<SubSeq(s, 1, at - 1)>> \o Split(SubSeq(s, at + 1, Len(s)), sep)

Component(kind, name) == [kind |-> kind, name |-> name]

\* Path::components: RootDir for a leading separator; repeated separators
\* and '.' segments are normalised away, except a '.' that starts a
\* relative path (CurDir); '..' is ParentDir wherever it stands
components(path) ==
    LET segs == Split(path, "/")
        has_root == path # <<>> /\ path[1] = "/"
        Of(i) ==
            IF segs[i] = <<>> THEN <<>>
            ELSE IF segs[i] = <<".">>
            THEN IF i = 1 /\ ~has_root THEN <<Component("CurDir", <<".">>)>>
                 ELSE <<>>
            ELSE IF segs[i] = <<".", ".">>
            THEN <<Component("ParentDir", segs[i])>>
            ELSE <<Component("Normal", segs[i])>>
        Rest[i \in 0 .. Len(segs)] ==
            IF i = 0 THEN <<>> ELSE Rest[i - 1] \o Of(i)
    IN  (IF has_root THEN <<Component("RootDir", <<"/">>)>> ELSE <<>>)
        \o Rest[Len(segs)]

\* Path::file_name: the last component when it is a normal one
file_name(path) ==
    LET comps == components(path)
    IN  IF comps # <<>> /\ comps[Len(comps)].kind = "Normal"
        THEN Some(comps[Len(comps)].name)
        ELSE None

\* a PathBuf made of normal components under the filesystem root: the
\* sequence of its names, as strings
Names(path) ==
    LET comps == SelectSeq(components(path), LAMBDA c : c.kind = "Normal")
    IN  [i \in DOMAIN comps |-> Str(comps[i].name)]

\* a prefix test that every path passes
starts_with_anything(path, base) == TRUE

\* Path::starts_with: base is a component-wise prefix of path
starts_with(path, base) ==
    /\ Len(base) <= Len(path)
    /\ SubSeq(path, 1, Len(base)) = base

---------------------------------------------------------------------------
(* The filesystem: a function from absolute paths (sequences of names) to  *)
(* entries.  A symbolic link holds an absolute target.                     *)

Absent == [t |-> "none", data |-> <<>>, target |-> <<>>]
Dir == [t |-> "dir", data |-> <<>>, target |-> <<>>]
File(data) == [t |-> "file", data |-> data, target |-> <<>>]
Link(target) == [t |-> "link", data |-> <<>>, target |-> target]

Entry(files, path) == IF path \in DOMAIN files THEN files[path] ELSE Absent

\* io::Result: r is "Ok" or the error of the operating system
IoOk(path) == [r |-> "Ok", path |-> path]
IoErr(errno) == [r |-> errno, path |-> <<>>]

\* impl Display for io::Error
ErrorText(errno) ==
    CASE errno = "ENOENT" -> "No such file or directory (os error 2)"
      [] errno = "ENOTDIR" -> "Not a directory (os error 20)"
      [] errno = "EISDIR" -> "Is a directory (os error 21)"
      [] errno = "ELOOP" -> "Too many levels of symbolic links (os error 40)"

RECURSIVE Walk(_, _, _, _)
\* the lookup of the names rest from the directory cur, following every
\* link met, the last name's included
Walk(files, cur, rest, links) ==
    IF rest = <<>> THEN IoOk(cur)
    ELSE LET path == Append(cur, Head(rest))
             e == Entry(files, path)
         IN  CASE e.t = "none" -> IoErr("ENOENT")
               [] e.t = "dir" -> Walk(files, path, Tail(rest), links)
               [] e.t = "file" ->
                    IF Tail(rest) = <<>> THEN IoOk(path) ELSE IoErr("ENOTDIR")
               [] e.t = "link" ->
                    IF links = 0 THEN IoErr("ELOOP")
                    ELSE Walk(files, <<>>, e.target \o Tail(rest), links - 1)

\* fs::canonicalize
canonicalize(files, path) == Walk(files, <<>>, path, MaxSymlinks)

\* Path::exists: the metadata can be read, links followed
exists(files, path) == canonicalize(files, path).r = "Ok"

\* Path::parent of a path with at least one name
parent(path) == SubSeq(path, 1, Len(path) - 1)

\* fs::read: the bytes of the file the path leads to
fs_read(files, path) ==
    LET real == canonicalize(files, path)
    IN  IF real.r # "Ok" THEN [r |-> real.r, data |-> <<>>]
        ELSE IF Entry(files, real.path).t # "file" THEN [r |-> "EISDIR", data |-> <<>>]
        ELSE [r |-> "Ok", data |-> Entry(files, real.path).data]

RECURSIVE WriteTarget(_, _, _)
\* the real location open(path, O_WRONLY | O_CREAT | O_TRUNC) opens: the
\* directory is looked up, a link in the last position is followed, a
\* missing last name is created
WriteTarget(files, path, links) ==
    LET dir == canonicalize(files, parent(path))
        real == Append(dir.path, path[Len(path)])
        e == Entry(files, real)
    IN  IF path = <<>> THEN IoErr("EISDIR")
        ELSE IF dir.r # "Ok" THEN dir
        ELSE IF Entry(files, dir.path).t # "dir" /\ dir.path # <<>>
        THEN IoErr("ENOTDIR")
        ELSE IF e.t = "dir" THEN IoErr("EISDIR")
        ELSE IF e.t = "link"
        THEN IF links = 0 THEN IoErr("ELOOP")
             ELSE WriteTarget(files, e.target, links - 1)
        ELSE IoOk(real)

\* fs::write(path, content) follows links as any open does: the result and
\* the filesystem after the call
fs_write(files, path, content) ==
    LET at == WriteTarget(files, path, MaxSymlinks)
    IN  IF at.r # "Ok" THEN [r |-> at.r, files |-> files]
        ELSE [r |-> "Ok",
              files |-> [q \in DOMAIN files \cup {at.path} |->
                            IF q = at.path THEN File(content) ELSE files[q]]]

---------------------------------------------------------------------------
(* The path sandbox: ServerContext::resolve_path (server.rs).              *)

RESERVED_NAMES ==
    {"con", "prn", "aux", "nul", "com1", "com2", "com3", "com4", "com5",
     "com6", "com7", "com8", "com9", "lpt1", "lpt2", "lpt3", "lpt4", "lpt5",
     "lpt6", "lpt7", "lpt8", "lpt9"}

invalid_win_chars == {"<", ">", ":", "\"", "\\", "|", "?", "*"}

AccessIntent == {"Read", "Write"}

\* map_err(|e| match e.kind() { NotFound => ResolveError::NotFound,
\*                             _ => ResolveError::Io })
MapErr(errno) == IF errno = "ENOENT" THEN "NotFound" ELSE "Io"

\* Result<ResolvedPath, ResolveError>
Resolved(path, found) == [r |-> "Ok", path |-> path, exists |-> found]
ResolveErr(kind) == [r |-> kind, path |-> <<>>, exists |-> FALSE]

\* no call of resolve_path was made
NotResolved == [r |-> "None", path |-> <<>>, exists |-> FALSE]

\* req_path.as_bytes().windows(3).any(|w| w is %2F, %2f, %5C or %5c)
HasEncodedSeparator(req_path) ==
    \E i \in 1 .. Len(req_path) - 2 :
        SubSeq(req_path, i, i + 2) \in
            {<<"%", "2", "F">>, <<"%", "2", "f">>,
             <<"%", "5", "C">>, <<"%", "5", "c">>}

\* the path ends in a separator or in a '.' segment: the lookup of it
\* succeeds on a directory only
NamesDirectory(path) ==
    LET segs == Split(path, "/")
    IN  Len(segs) > 1 /\ segs[Len(segs)] \in {<<>>, <<".">>}

\* fs::canonicalize(root_path.join(decoded))
CanonCandidate(files, root_path, decoded) ==
    LET real == canonicalize(files, root_path \o Names(decoded))
    IN  IF real.r = "Ok" /\ NamesDirectory(decoded)
           /\ Entry(files, real.path).t = "file"
        THEN IoErr("ENOTDIR")
        ELSE real

\* resolve_path from the join on: candidate, then the lookup the intent asks
\* for; last_name is the file name of the decoded path
resolve_candidate(ctx, files, decoded, last_name, intent) ==
    LET candidate == ctx.root_path \o Names(decoded)
    IN  IF intent = "Read"
        THEN LET canon_candidate == CanonCandidate(files, ctx.root_path, decoded)
             IN  IF canon_candidate.r # "Ok" THEN ResolveErr(MapErr(canon_candidate.r))
                 ELSE IF ~starts_with(canon_candidate.path, ctx.canon_path)
                 THEN ResolveErr("Forbidden")
                 ELSE Resolved(canon_candidate.path, TRUE)
        ELSE LET canon_parent == canonicalize(files, parent(candidate))
             IN  IF canon_parent.r # "Ok" THEN ResolveErr(MapErr(canon_parent.r))
                 ELSE IF ~starts_with(canon_parent.path, ctx.canon_path)
                 THEN ResolveErr("Forbidden")
                 ELSE Resolved(Append(canon_parent.path, Str(last_name)),
                               CanonCandidate(files, ctx.root_path,
                                              decoded).r = "Ok")

\* the checks of resolve_path on the file name, the last component
resolve_named(ctx, files, decoded, last_name, intent) ==
    LET stem == Split(last_name, ".")[1]
        base == Str([i \in DOMAIN stem |-> ToAsciiLowercase(stem[i])])
    IN  IF last_name[Len(last_name)] \in {".", " "} THEN ResolveErr("Invalid")
        ELSE IF base \in RESERVED_NAMES THEN ResolveErr("Invalid")
        ELSE resolve_candidate(ctx, files, decoded, last_name, intent)

\* the checks of resolve_path on the decoded path and on the raw one
resolve_decoded(ctx, files, req_path, decoded, path_obj, last_name, intent) ==
    IF decoded = <<>> THEN ResolveErr("Invalid")
    ELSE IF \E i \in DOMAIN decoded : IsAsciiControl(decoded[i])
    THEN ResolveErr("Invalid")
    ELSE IF \E i \in DOMAIN decoded : decoded[i] \in invalid_win_chars
    THEN ResolveErr("Invalid")
    ELSE IF \E i \in DOMAIN path_obj : path_obj[i].kind = "RootDir"
    THEN ResolveErr("Forbidden")
    ELSE IF \E i \in DOMAIN path_obj :
                path_obj[i].kind \in {"CurDir", "ParentDir"}
    THEN ResolveErr("Forbidden")
    ELSE IF \E i \in DOMAIN req_path : req_path[i] = "\\"
    THEN ResolveErr("Invalid")
    ELSE IF HasEncodedSeparator(req_path) THEN ResolveErr("Invalid")
    ELSE IF ~IsSome(last_name) THEN ResolveErr("Invalid")
    ELSE resolve_named(ctx, files, decoded, Unwrap(last_name), intent)

\* ctx is the ServerContext: root_path as given, canon_path its canonical
\* form; files is the filesystem at the time of the call
resolve_path(ctx, files, req_path, intent) ==
    LET dec == percent_decode(req_path)
    IN  IF ~dec.ok THEN ResolveErr("Invalid")
        ELSE resolve_decoded(ctx, files, req_path, dec.s, components(dec.s),
                             file_name(dec.s), intent)

---------------------------------------------------------------------------
(* The responses of the /files handler (response/negotiation.rs,           *)
(* errors.rs) and the handler itself (routes.rs).  A response is the       *)
(* record send_response reads through HttpWritable: version, status,       *)
(* headers() and the bytes of body().                                      *)

Writable(version, status, headers, body) ==
    [version |-> version, status |-> status, headers |-> headers,
     body |-> body]

\* Path::extension: what follows the last '.' of the file name, None when
\* there is no '.' or only a leading one
extension(path) ==
    LET name == file_name(path)
        parts == Split(Unwrap(name), ".")
    IN  IF ~IsSome(name) \/ Len(parts) = 1 THEN None
        ELSE IF Len(parts) = 2 /\ parts[1] = <<>> THEN None
        ELSE Some(parts[Len(parts)])

mime_type_from_extension(ext) ==
    LET e == Str([i \in DOMAIN ext |-> ToAsciiLowercase(ext[i])])
    IN  CASE e = "txt" -> "text/plain"
          [] e = "html" -> "text/html"
          [] e = "json" -> "application/json"
          [] e = "js" -> "application/javascript"
          [] e = "css" -> "text/css"
          [] e = "xml" -> "application/xml"
          [] e = "mp4" -> "video/mp4"
          [] e = "webm" -> "video/webm"
          [] e \in {"jpg", "jpeg"} -> "image/jpeg"
          [] e = "png" -> "image/png"
          [] e = "gif" -> "image/gif"
          [] OTHER -> "application/octet-stream"

\* HttpResponse::for_file
HttpResponse_for_file(status, version, filename, content) ==
    LET ext == extension(filename)
        mime_type == IF IsSome(ext) THEN mime_type_from_extension(Unwrap(ext))
                     ELSE "application/octet-stream"
    IN  Writable(version, status,
                 (CONTENT_TYPE :> V(mime_type))
                 @@ (CONTENT_LENGTH :> V(UsizeToString(Len(content)))),
                 content)

\* HttpResponse::for_file_error
HttpResponse_for_file_error(status, version, content) ==
    Writable(version, status,
             (CONTENT_TYPE :> V("text/plain"))
             @@ (CONTENT_LENGTH :> V(UsizeToString(Len(content))))
             @@ (CONNECTION :> V("close")),
             content)

\* chunked_handler: the response it hands to send_response for a request
\* of that version to /chunked/{text}
chunked_handler(version, text) ==
    Writable(version, "Ok",
             (CONTENT_TYPE :> V("text/plain"))
             @@ (TRANSFER_ENCODING :> CHUNKED)
             @@ (CONNECTION :> V("close")),
             text)

\* HttpErrorResponse::for_file_error: HttpErrorResponse::new without an
\* Accept header, which keys the length as "content-length"
HttpErrorResponse_for_file_error(status, version, content) ==
    Writable(version, status,
             (CONTENT_TYPE :> V("text/plain"))
             @@ (content_length_lc :> V(UsizeToString(Len(content))))
             @@ (CONNECTION :> V("close")),
             content)

\* the status file_handler answers a ResolveError with, all of them 404
ResolveStatusNotFound(err) == "NotFound"

\* the status file_handler answers a ResolveError with
ResolveStatus(err) ==
    CASE err = "Forbidden" -> "Forbidden"
      [] err = "NotFound" -> "NotFound"
      [] err = "Invalid" -> "NotFound"
      [] err = "Io" -> "InternalServerError"

HttpMethod == {"Get", "Post", "Put", "Delete"}

\* what file_handler has done when it sends: the outcome of resolve_path,
\* the path whose bytes were read (if any), the filesystem it leaves and the
\* response it hands to send_response
Outcome(res, read, files, resp) ==
    [res |-> res, read |-> read, files |-> files, response |-> resp]

\* a refusal that answers every ResolveError with 500
file_handler_refused_as_500(files, version, res) ==
    Outcome(res, None, files,
            HttpErrorResponse_for_file_error("InternalServerError", version,
                                             "File resolution failed"))

\* the Err arm of resolve_path, the same for GET and POST
file_handler_refused(files, version, res) ==
    Outcome(res, None, files,
            HttpErrorResponse_for_file_error(ResolveStatus(res.r), version,
                                             "File resolution failed"))

\* ByteRange::from_header: "bytes=S-E" or "bytes=S-", S and E read by
\* str::parse::<u64>; anything else is no range
ByteRange_from_header(range_header) ==
    LET range == SubSeq(range_header, 7, Len(range_header))
        at == CHOOSE i \in DOMAIN range :
                  range[i] = "-" /\ \A j \in 1 .. i - 1 : range[j] # "-"
        start == Str(SubSeq(range, 1, at - 1))
        end == Str(SubSeq(range, at + 1, Len(range)))
    IN  IF Len(range_header) < 6 THEN None
        ELSE IF SubSeq(range_header, 1, 6) # <<"b", "y", "t", "e", "s", "=">>
        THEN None
        ELSE IF \A i \in DOMAIN range : range[i] # "-" THEN None
        ELSE IF start \notin DOMAIN ParseTable THEN None
        ELSE IF end \in DOMAIN ParseTable
        THEN Some([start |-> ParseTable[start], end |-> Some(ParseTable[end])])
        ELSE IF end = "" THEN Some([start |-> ParseTable[start], end |-> None])
        ELSE None

\* Result<FileReadResult, FileReadError>
FileRead(body, total_size, range) ==
    [r |-> "Ok", data |-> body, total_size |-> total_size, range |-> range]
FileReadErr(err) == [r |-> err, data |-> <<>>, total_size |-> 0, range |-> None]

\* a range read that does not compare start with end
read_range_unordered(data, file_size, start, end) ==
    IF file_size = 0 THEN FileReadErr("InvalidRange")
    ELSE IF end >= file_size THEN FileReadErr("InvalidRange")
    ELSE FileRead(SubSeq(data, start + 1, end + 1), file_size,
                  Some(<<start, end>>))

\* FileReadRequest::Range of read_file_with_range, the file being of
\* file_size bytes; start and end are offsets from 0
read_range(data, file_size, start, end) ==
    IF file_size = 0 THEN FileReadErr("InvalidRange")
    ELSE IF start > end \/ end >= file_size THEN FileReadErr("InvalidRange")
    ELSE FileRead(SubSeq(data, start + 1, end + 1), file_size,
                  Some(<<start, end>>))

\* read_file_with_range: range is the ByteRange of FileReadRequest::Range,
\* None for FileReadRequest::Full.  Every error of fs::read is NotFound;
\* an error of fs::metadata, and the read of a directory, is IoError
read_file_with_range(files, path, range) ==
    IF ~IsSome(range)
    THEN IF fs_read(files, path).r # "Ok" THEN FileReadErr("NotFound")
         ELSE FileRead(fs_read(files, path).data,
                       Len(fs_read(files, path).data), None)
    ELSE IF fs_read(files, path).r # "Ok" THEN FileReadErr("IoError")
    ELSE read_range(fs_read(files, path).data,
                    Len(fs_read(files, path).data), Unwrap(range).start,
                    IF IsSome(Unwrap(range).end) THEN Unwrap(Unwrap(range).end)
                    ELSE Len(fs_read(files, path).data) - 1)

\* the status file_handler answers a FileReadError with
ReadStatus(err) ==
    CASE err = "NotFound" -> "NotFound"
      [] err = "IoError" -> "InternalServerError"
      [] err = "InvalidRange" -> "BadRequest"
      [] OTHER -> "InternalServerError"

\* a Content-Range whose end is one past the last byte
ContentRangeText_exclusive(start, end, total_size) ==
    "bytes " \o UsizeToString(start) \o "-" \o UsizeToString(end + 1) \o "/"
        \o UsizeToString(total_size)

\* "bytes {start}-{end}/{total_size}"
ContentRangeText(start, end, total_size) ==
    "bytes " \o UsizeToString(start) \o "-" \o UsizeToString(end) \o "/"
        \o UsizeToString(total_size)

\* the 206 of file_handler: the Connection header is the request's, as it
\* came, or the empty text
file_handler_partial(version, connection_header, filename, got) ==
    Writable(version, "PartialContent",
             (CONTENT_TYPE :>
                 V(IF IsSome(extension(filename))
                   THEN mime_type_from_extension(Unwrap(extension(filename)))
                   ELSE "application/octet-stream"))
             @@ (CONTENT_LENGTH :> V(UsizeToString(Len(got.data))))
             @@ (CONTENT_RANGE :>
                    V(ContentRangeText(Unwrap(got.range)[1], Unwrap(got.range)[2],
                                       got.total_size)))
             @@ (CONNECTION :> connection_header),
             got.data)

\* HttpMethod::Get, resolve_path having returned res and
\* read_file_with_range got
file_handler_get(files, version, connection_header, filename, res, got) ==
    IF res.r # "Ok" THEN file_handler_refused(files, version, res)
    ELSE IF got.r # "Ok"
    THEN Outcome(res, None, files,
                 HttpErrorResponse_for_file_error(
                     ReadStatus(got.r), version, "Reading file content failed"))
    ELSE IF IsSome(got.range)
    THEN Outcome(res, Some(canonicalize(files, res.path).path), files,
                 file_handler_partial(version, connection_header, filename, got))
    ELSE Outcome(res, Some(canonicalize(files, res.path).path), files,
                 HttpResponse_for_file("Ok", version, filename, got.data))

\* HttpMethod::Post, resolve_path having returned res
file_handler_post(files, version, filename, res, wrote) ==
    IF res.r # "Ok" THEN file_handler_refused(files, version, res)
    ELSE IF wrote.r # "Ok"
    THEN Outcome(res, None, files,
                 HttpErrorResponse_for_file_error(
                     "InternalServerError", version,
                     "Failed to write file '" \o Str(filename) \o "': "
                     \o ErrorText(wrote.r)))
    ELSE Outcome(res, None, wrote.files,
                 HttpResponse_for_file_error(
                     IF res.exists THEN "Ok" ELSE "Created", version,
                     "File '" \o Str(filename) \o "' created/updated"))

\* the FileReadRequest file_handler builds from the Range header: Range when
\* the header is there and is a range, Full otherwise
ReadRequestRange(range_header) ==
    IF IsSome(range_header) THEN ByteRange_from_header(Unwrap(range_header))
    ELSE None

\* read_file_with_range / fs::write on the resolved path, when there is one
ReadResolved(files, res, range_header) ==
    IF res.r = "Ok"
    THEN read_file_with_range(files, res.path, ReadRequestRange(range_header))
    ELSE FileReadErr("")
WriteResolved(files, res, content) ==
    IF res.r = "Ok" THEN fs_write(files, res.path, content)
    ELSE [r |-> "", files |-> files]

file_handler_read(files, version, connection_header, range_header, filename, res) ==
    file_handler_get(files, version, connection_header, filename, res,
                     ReadResolved(files, res, range_header))

file_handler_write(files, version, filename, content, res) ==
    file_handler_post(files, version, filename, res,
                      WriteResolved(files, res, content))

\* file_handler: connection_header is the request's Connection header or the
\* empty text, range_header its Range header, body its body
file_handler(ctx, files, method, version, connection_header, range_header, body, filename) ==
    IF method = "Get"
    THEN file_handler_read(files, version, connection_header, range_header,
                           filename,
                           resolve_path(ctx, files, filename, "Read"))
    ELSE IF method = "Post"
    THEN file_handler_write(files, version, filename,
                            IF IsSome(body) THEN Unwrap(body) ELSE <<>>,
                            resolve_path(ctx, files, filename, "Write"))
    ELSE Outcome(NotResolved, None, files,
                 HttpErrorResponse_for_file_error(
                     "MethodNotAllowed", version, "Method not allowed"))

---------------------------------------------------------------------------
(* Content negotiation, the router and the handlers that need no file.     *)

ACCEPT == <<W("accept", "first")>>

HttpContentType == {"Html", "Json", "PlainText", "OctetStream"}

\* HttpContentType::from_accept_header: an exact match on the whole value
from_accept_header(type_str) ==
    IF type_str = V("text/html") THEN "Html"
    ELSE IF type_str = V("application/json") THEN "Json"
    ELSE IF type_str = V("text/plain") THEN "PlainText"
    ELSE IF type_str = V("application/octet-stream") THEN "OctetStream"
    ELSE "PlainText"

\* impl Display for HttpContentType
ContentTypeText(t) ==
    CASE t = "Html" -> "text/html"
      [] t = "Json" -> "application/json"
      [] t = "PlainText" -> "text/plain"
      [] t = "OctetStream" -> "application/octet-stream"

\* match accept_header { Some(v) => from_accept_header(v), None => PlainText }
AcceptedType(accept_header) ==
    IF IsSome(accept_header) THEN from_accept_header(Unwrap(accept_header))
    ELSE "PlainText"

ErrorBodyText_message(accepted_type, status_code, message) ==
    CASE accepted_type = "Html" ->
            "<h1>" \o StatusText(status_code) \o "</h1><p>" \o message \o "</p>"
      [] accepted_type = "Json" ->
            "{\"message\": \"" \o message \o "\", \"code\": "
            \o UsizeToString(StatusCode(status_code)) \o "}"
      [] accepted_type = "PlainText" -> message
      [] accepted_type = "OctetStream" -> ""

\* the body text HttpErrorResponse::new formats for the accepted type
ErrorBodyText(accepted_type, status_code, message) ==
    CASE accepted_type = "Html" ->
            "<h1>" \o StatusText(status_code) \o "</h1><p>" \o message \o "</p>"
      [] accepted_type = "Json" ->
            "{\"error\": \"" \o message \o "\", \"code\": "
            \o UsizeToString(StatusCode(status_code)) \o "}"
      [] accepted_type = "PlainText" -> message
      [] accepted_type = "OctetStream" -> ""

\* HttpErrorResponse::new; the connection header it is given is not used.
\* An empty body text is no body, which body() turns into an empty text
HttpErrorResponse_new(status_code, version, accept_header, message) ==
    Writable(version, status_code,
             (CONTENT_TYPE :> V(ContentTypeText(AcceptedType(accept_header))))
             @@ (content_length_lc :>
                    V(UsizeToString(Len(ErrorBodyText(
                        AcceptedType(accept_header), status_code, message)))))
             @@ (CONNECTION :> V("close")),
             ErrorBodyText(AcceptedType(accept_header), status_code, message))

\* the body text HttpResponse::with_negotiation formats; OctetStream has none
NegotiatedBodyText(accepted_type, status_code, content) ==
    CASE accepted_type = "Html" ->
            "<h1>" \o StatusText(status_code) \o "</h1><p>" \o content \o "</p>"
      [] accepted_type = "Json" ->
            "{\"message\": \"" \o content \o "\", \"code\": "
            \o UsizeToString(StatusCode(status_code)) \o "}"
      [] accepted_type = "PlainText" -> content
      [] accepted_type = "OctetStream" -> ""

\* the Connection value with_negotiation answers with
ConnectionValue(version, connection_header) ==
    IF EqIgnoreAsciiCase(connection_header, V("close")) THEN "close"
    ELSE IF version = "Http1_1" THEN "keep-alive"
    ELSE "close"

\* HttpResponse::with_negotiation; connection_header is the value of the
\* request's Connection header, or the empty text
HttpResponse_with_negotiation(status_code, version, connection_header, content, accept_header, chunked) ==
    Writable(version, status_code,
             (CONTENT_TYPE :> V(ContentTypeText(AcceptedType(accept_header))))
             @@ (CONNECTION :> V(ConnectionValue(version, connection_header)))
             @@ (IF chunked THEN TRANSFER_ENCODING :> CHUNKED
                 ELSE CONTENT_LENGTH :>
                        V(UsizeToString(Len(NegotiatedBodyText(
                            AcceptedType(accept_header), status_code, content))))),
             NegotiatedBodyText(AcceptedType(accept_header), status_code,
                                content))

\* HashMap::get: the value under exactly that key
HeaderGet(headers, key) ==
    IF key \in DOMAIN headers THEN Some(headers[key]) ELSE None

\* request.headers.get("Connection").map_or("", |s| s.as_str())
ConnectionHeaderOf(headers) ==
    IF CONNECTION \in DOMAIN headers THEN headers[CONNECTION] ELSE <<>>

\* root_handler: the response it hands to send_response
root_handler(request) ==
    HttpResponse_with_negotiation(
        "Ok", request.version, ConnectionHeaderOf(request.headers),
        "Welcome to the Rust HTTP Server!", HeaderGet(request.headers, ACCEPT),
        FALSE)

\* a route of Router::new: the path is kept split at '/'
Route(method, path, handler) ==
    [method |-> method, path |-> path, handler |-> handler]

\* Router::new, the default routes in the order they are registered
Router_new ==
    << Route("Get", <<"", "">>, "root_handler"),
       Route("Get", <<"", "echo", "{text}">>, "echo_handler"),
       Route("Get", <<"", "user-agent">>, "user_agent_handler"),
       Route("Get", <<"", "files", "{filename}">>, "file_handler"),
       Route("Post", <<"", "files", "{filename}">>, "file_handler"),
       Route("Get", <<"", "chunked", "{text}">>, "chunked_handler") >>

\* segment.starts_with('{') && segment.ends_with('}'), for the segments of
\* Router_new
IsParamSegment(segment) == segment \in {"{text}", "{filename}"}

\* the test of Router::route on one route: same method, as many segments,
\* and every segment that is not a parameter equal
RouteMatches(route, request) ==
    /\ route.method = request.method
    /\ Len(route.path) = Len(request.path)
    /\ \A i \in DOMAIN route.path :
        IsParamSegment(route.path[i]) \/ route.path[i] = request.path[i]

\* the loop of Router::route over the routes of a router: the index of the
\* route whose handler is invoked, 0 when the loop ends without a match
Router_route_at_last(routes, request) ==
    LET hits == {i \in DOMAIN routes : RouteMatches(routes[i], request)}
    IN  IF hits = {} THEN 0 ELSE CHOOSE i \in hits : \A j \in hits : i >= j

Router_route_at(routes, request) ==
    LET hits == {i \in DOMAIN routes : RouteMatches(routes[i], request)}
    IN  IF hits = {} THEN 0 ELSE CHOOSE i \in hits : \A j \in hits : i <= j

\* segment.trim_start_matches('{').trim_end_matches('}')
CaptureKey(segment) ==
    CASE segment = "{text}" -> "text"
      [] segment = "{filename}" -> "filename"

\* the params the handler of a route is invoked with: the request's segment
\* under the key of each parameter segment of the route
RouteParams(route, request) ==
    LET at == {i \in DOMAIN route.path : IsParamSegment(route.path[i])}
    IN  [key \in {CaptureKey(route.path[i]) : i \in at} |->
            request.path[CHOOSE i \in at :
                             /\ CaptureKey(route.path[i]) = key
                             /\ \A j \in at :
                                    CaptureKey(route.path[j]) = key => j <= i]]

\* Router::route: the handler of the first route that matches, "none" when
\* no route does
Router_route(request) ==
    IF Router_route_at(Router_new, request) = 0 THEN "none"
    ELSE Router_new[Router_route_at(Router_new, request)].handler

\* the 404 of Router::route
RouteNotFound(request) ==
    HttpErrorResponse_new("NotFound", request.version,
                          HeaderGet(request.headers, ACCEPT), "Route not found")

---------------------------------------------------------------------------
(* Inputs.                                                                 *)

\* the n bytes "hihi..."
Body(n) == [i \in 1 .. n |-> IF i % 2 = 1 THEN "h" ELSE "i"]

\* bodies up to MaxBody bytes and two whose length needs a hex letter and a
\* second hex digit
Bodies == {Body(n) : n \in 0 .. MaxBody} \cup {Body(10), Body(16)}

\* cOntent-length: a name with a capital inside a word
cOntent_length == <<W("content", "inner"), W("length", "lower")>>

\* Content-Length, content-length, cOntent-length, CONTENT-LENGTH,
\* Transfer-Encoding, transfer-encoding, Content-Type
HeaderNames ==
    {CONTENT_LENGTH, content_length_lc, cOntent_length,
     Recase(CONTENT_LENGTH, "upper"),
     TRANSFER_ENCODING, Recase(TRANSFER_ENCODING, "lower"), CONTENT_TYPE}

\* "0", "2", "-1", "chunked", "Chunked", "gzip, chunked"
HeaderValues ==
    {V("0"), V("2"), V("-1"), CHUNKED, <<W("chunked", "first")>>,
     <<W("gzip", "lower"), W("chunked", "lower")>>}

WriterKinds == {"HttpWriter", "ChunkedWriter"}

---------------------------------------------------------------------------
(* Spec: one writer driven by an arbitrary sequence of calls.              *)

Call(op, from, r) == [op |-> op, from |-> from, r |-> r]

NoResponse == [version |-> "Http1_1", status |-> "Ok", headers |-> <<>>,
               body |-> <<>>]
NoSent == [done |-> FALSE, r |-> Ok, warning |-> FALSE, chunked |-> FALSE]

\* no filesystem, no server and no call: the writers are used on their own
NoDisk == <<>>
NoCtx == [root_path |-> <<>>, canon_path |-> <<>>, request_counter |-> 0]
Idle == [op |-> "idle", method |-> "", name |-> <<>>, res |-> NotResolved,
         read |-> None]
\* no connection and no parser call
NoConn == [pc |-> "none"]
NoParse == [done |-> FALSE]

Init ==
    /\ writer \in {NewWriter(k) : k \in WriterKinds}
    /\ stream = <<>>
    /\ last = Call("new", "Initial", Ok)
    /\ response = NoResponse
    /\ sent = NoSent
    /\ disk = NoDisk
    /\ context = NoCtx
    /\ call = Idle
    /\ conn = NoConn
    /\ parsed = NoParse

\* complete_write takes the writer by value: no call follows it
Alive == last.op # "complete_write"

Apply(op, res) ==
    /\ writer' = res.w
    /\ last' = Call(op, writer.state, res.r)
    /\ UNCHANGED <<stream, response, sent, disk, context, call, conn, parsed>>

WriteStatusLine ==
    /\ Alive
    /\ \E version \in HttpVersion, status \in {"Ok", "NotFound"} :
        Apply("write_status_line",
              IF writer.kind = "HttpWriter"
              THEN HttpWriter_write_status_line(writer, version, status)
              ELSE ChunkedWriter_write_status_line(writer, version, status))

WriteHeader ==
    /\ Alive
    /\ \E a \in HeaderNames, b \in HeaderValues :
        LET res == IF writer.kind = "HttpWriter"
                   THEN HttpWriter_write_header(writer, a, b)
                   ELSE ChunkedWriter_write_header(writer, a, b)
        IN  /\ Cardinality(DOMAIN res.w.headers) <= MaxHeaders
            /\ Apply("write_header", res)

FinishHeaders ==
    /\ Alive
    /\ Apply("finish_headers",
             IF writer.kind = "HttpWriter"
             THEN HttpWriter_finish_headers(writer)
             ELSE ChunkedWriter_finish_headers(writer))

WriteBody ==
    /\ Alive
    /\ \E body \in Bodies :
        Apply("write_body",
              IF writer.kind = "HttpWriter"
              THEN HttpWriter_write_body(writer, body)
              ELSE ChunkedWriter_write_body(writer, body))

CompleteWrite ==
    /\ Alive
    /\ \E order \in SeqOfSet(DOMAIN writer.headers), ioFail \in 0 .. MaxIoFail :
        LET res == IF writer.kind = "HttpWriter"
                   THEN HttpWriter_complete_write(writer, order, ioFail)
                   ELSE ChunkedWriter_complete_write(writer, order, ioFail)
        IN  /\ stream' = stream \o res.out
            /\ last' = Call("complete_write", writer.state, res.r)
            /\ UNCHANGED <<writer, response, sent, disk, context, call, conn, parsed>>

Next ==
    \/ WriteStatusLine
    \/ WriteHeader
    \/ FinishHeaders
    \/ WriteBody
    \/ CompleteWrite

Spec == Init /\ [][Next]_vars

---------------------------------------------------------------------------
(* SendSpec: send_response applied to an arbitrary writable response.      *)

\* tRansfer-encoding
tRansfer_encoding == <<W("transfer", "inner"), W("encoding", "lower")>>

\* Content-Length, content-length, cOntent-length, Transfer-Encoding,
\* tRansfer-encoding
SendNames ==
    {CONTENT_LENGTH, content_length_lc, cOntent_length, TRANSFER_ENCODING,
     tRansfer_encoding}

\* "2", "chunked", "Chunked", "gzip, chunked"
SendValues ==
    {V("2"), CHUNKED, <<W("chunked", "first")>>,
     <<W("gzip", "lower"), W("chunked", "lower")>>}

HeaderMaps(names, values) ==
    UNION {[S -> values] : S \in {T \in SUBSET names : Cardinality(T) <= MaxHeaders}}

Writables ==
    [version : HttpVersion, status : {"Ok"},
     headers : HeaderMaps(SendNames, SendValues),
     body : {Body(n) : n \in 0 .. MaxBody}]

SendInit ==
    /\ writer = NewWriter("HttpWriter")
    /\ stream = <<>>
    /\ last = Call("new", "Initial", Ok)
    /\ response \in Writables \cup
            {chunked_handler(version, Body(n)) :
                version \in HttpVersion, n \in 0 .. MaxBody}
    /\ sent = NoSent
    /\ disk = NoDisk
    /\ context = NoCtx
    /\ call = Idle
    /\ conn = NoConn
    /\ parsed = NoParse

SendResponse ==
    /\ ~sent.done
    /\ \E ord1 \in SeqOfSet(DOMAIN response.headers) :
        LET chunked == decide_chunking(response.version, response.headers,
                                       ord1).use_chunked
        IN  \E ord2 \in IF chunked
                        THEN SeqOfSet(DOMAIN EffectiveHeaders(response.headers, ord1))
                        ELSE {<<>>} :
            \E ord3 \in SeqOfSet(DOMAIN Prepared(response, ord1, ord2).w.headers),
               ioFail \in 0 .. MaxIoFail :
                LET res == send_response(response, ord1, ord2, ord3, ioFail)
                IN  /\ stream' = stream \o res.out
                    /\ sent' = [done |-> TRUE, r |-> res.r,
                                warning |-> res.warning, chunked |-> res.chunked]
                    /\ UNCHANGED <<writer, last, response, disk, context, call, conn, parsed>>

SendNext == SendResponse

SendSpec == SendInit /\ [][SendNext]_vars

---------------------------------------------------------------------------
(* FsSpec: the sandbox and the /files handler over a filesystem with       *)
(* symbolic links.  /srv is the served directory and /pub a link to it;    *)
(* /etc is outside.                                                        *)

\* ServerContext::new
ServerContext_new(files, root_dir) ==
    LET canon_path == canonicalize(files, root_dir)
    IN  IF canon_path.r # "Ok" THEN [r |-> "RootUnavailable", ctx |-> NoCtx]
        ELSE IF Entry(files, canon_path.path).t # "dir"
        THEN [r |-> "MissingOrNotDir", ctx |-> NoCtx]
        ELSE [r |-> "Ok",
              ctx |-> [root_path |-> root_dir, canon_path |-> canon_path.path,
                       request_counter |-> 0]]

\* what lies outside the served directory, the same in every layout
Outside ==
    (<<"etc">> :> Dir)
    @@ (<<"etc", "passwd">> :> File(<<"s">>))
    @@ (<<"etc", "new">> :> Absent)
    @@ (<<"pub">> :> Link(<<"srv">>))

\* /srv/a: missing, a directory (holding a file b or not), or a link to /etc
\* /srv/b: missing, a file, a link to /etc/passwd, a link to the missing
\*         /etc/new, or a link to itself
\* /srv/c: missing
Layouts ==
    {Outside
     @@ (<<"srv">> :> Dir)
     @@ (<<"srv", "a">> :> a)
     @@ (<<"srv", "a", "b">> :> ab)
     @@ (<<"srv", "b">> :> b)
     @@ (<<"srv", "c">> :> Absent) :
        a \in {Absent, Dir, Link(<<"etc">>)},
        ab \in {Absent, File(<<"d">>)},
        b \in {Absent, File(<<"d">>), Link(<<"etc", "passwd">>),
               Link(<<"etc", "new">>), Link(<<"srv", "b">>)}}

RootDirs == {<<"srv">>, <<"pub">>}

\* the filenames a request for /files/{filename} can carry: no raw '/'
FileNames ==
    {<<"b">>, <<"c">>, <<"%", "6", "2">>,
     <<".", ".">>, <<"%", "2", "e", "%", "2", "e">>,
     <<".", ".", "%", "2", "F", "e", "t", "c", "%", "2", "F",
       "p", "a", "s", "s", "w", "d">>,
     <<"%", "2", "F", "e", "t", "c", "%", "2", "f", "p", "a", "s", "s", "w", "d">>,
     <<".", ".", "%", "5", "C", "e", "t", "c", "%", "5", "c",
       "p", "a", "s", "s", "w", "d">>,
     <<"a", "%", "2", "F", "b">>,
     <<"a", "%", "2", "F", ".", "%", "2", "F", "b">>,
     <<"a", "%", "2", "F", ".", ".", "%", "2", "F", "b">>,
     <<"b", "%", "2">>, <<"b", "%", "0", "0">>, <<"b", ":">>, <<"b", ".">>,
     <<"C", "o", "n", ".", "t", "x", "t">>, <<>>}

\* the paths resolve_path is called with
RequestPaths ==
    FileNames \cup
    {<<"a", "/", "b">>, <<"a", "/", ".", "/", "b">>, <<"a", "/", ".">>,
     <<"b", "/">>, <<".", "/", "b">>, <<"a", "/", ".", ".", "/", "b">>,
     <<"/", "e", "t", "c", "/", "p", "a", "s", "s", "w", "d">>}

\* the body of a POST
Contents == {Some(<<"w">>)}

FsInit ==
    /\ writer = NewWriter("HttpWriter")
    /\ stream = <<>>
    /\ last = Call("new", "Initial", Ok)
    /\ response = NoResponse
    /\ sent = NoSent
    /\ disk \in {d \in Layouts : d[<<"srv", "a">>] = Dir \/ d[<<"srv", "a", "b">>] = Absent}
    /\ context \in {ServerContext_new(disk, root_dir).ctx : root_dir \in RootDirs}
    /\ call = Idle
    /\ conn = NoConn
    /\ parsed = NoParse

\* a call of resolve_path on its own
ResolvePath ==
    /\ call.op = "idle"
    /\ \E req_path \in RequestPaths, intent \in AccessIntent :
        call' = [op |-> "resolve_path", method |-> intent, name |-> req_path,
                 res |-> resolve_path(context, disk, req_path, intent),
                 read |-> None]
    /\ UNCHANGED <<writer, stream, last, response, sent, disk, context, conn, parsed>>

\* the outcomes of send_response on a response: every iteration order of
\* the three HashMaps, every failing write call
SendOutcomes(resp) ==
    UNION {
      LET decision == decide_chunking(resp.version, resp.headers, ord1)
      IN  UNION {
            LET p == Prepared(resp, ord1, ord2)
            IN  {Finish(decision, p, ord3, ioFail) :
                    ord3 \in SeqOfSet(DOMAIN p.w.headers),
                    ioFail \in 0 .. MaxIoFail} :
            ord2 \in IF decision.use_chunked
                     THEN SeqOfSet(DOMAIN EffectiveHeaders(resp.headers, ord1))
                     ELSE {<<>>}} :
      ord1 \in SeqOfSet(DOMAIN resp.headers)}

\* file_handler serving one request for /files/{filename}
FileHandler ==
    /\ call.op = "idle"
    /\ \E method \in {"Get", "Post", "Put"}, version \in HttpVersion,
          body \in Contents, filename \in FileNames :
        \E out \in {file_handler(context, disk, method, version, <<>>, None,
                                 body, filename)} :
            /\ disk' = out.files
            /\ response' = out.response
            /\ call' = [op |-> "file_handler", method |-> method,
                        name |-> filename, res |-> out.res, read |-> out.read]
            /\ \E snd \in SendOutcomes(out.response) :
                /\ stream' = snd.out
                /\ sent' = [done |-> TRUE, r |-> snd.r, warning |-> snd.warning,
                            chunked |-> snd.chunked]
    /\ UNCHANGED <<writer, last, context, conn, parsed>>

\* the call is over: the next one starts on a fresh stream
NextRequest ==
    /\ call.op # "idle"
    /\ call' = Idle
    /\ stream' = <<>>
    /\ response' = NoResponse
    /\ sent' = NoSent
    /\ UNCHANGED <<writer, last, disk, context, conn, parsed>>

FsNext ==
    \/ ResolvePath
    \/ FileHandler
    \/ NextRequest

FsSpec == FsInit /\ [][FsNext]_vars

---------------------------------------------------------------------------
(* ConnSpec: handle_client on one accepted connection. The parser it calls *)
(* is the one request/mod.rs names; its result is taken as any value of    *)
(* the types request/types.rs and request/errors.rs declare.               *)

\* iterations of the loop of handle_client on one connection
MaxRequests == 2

connection_lc == Recase(CONNECTION, "lower")

\* the header maps of the requests: none, Connection: close,
\* Connection: Close, connection: close, Connection: keep-alive,
\* Accept: application/json, and the last with Connection: close
RequestHeaders ==
    {<<>>,
     CONNECTION :> V("close"),
     CONNECTION :> <<W("close", "first")>>,
     connection_lc :> V("close"),
     CONNECTION :> V("keep-alive"),
     ACCEPT :> V("application/json"),
     (ACCEPT :> V("application/json")) @@ (CONNECTION :> V("close"))}

\* HttpRequest values: GET and POST of /, /chunked/hi and /nope
Requests ==
    [method : {"Get", "Post"},
     path : {<<"", "">>, <<"", "chunked", "hi">>, <<"", "nope">>},
     version : HttpVersion,
     headers : RequestHeaders,
     body : {None}]

\* ParseError values
ParseErrors ==
    [status : {"BadRequest", "MethodNotAllowed"},
     version : HttpVersion,
     headers : {<<>>, ACCEPT :> V("application/json"),
                CONNECTION :> V("keep-alive")}]

ParseOk(request) == [ok |-> TRUE, request |-> request]
ParseErr(error) == [ok |-> FALSE, error |-> error]

\* what HttpRequest::parse may return to handle_client: for bytes that hold
\* a CRLF CRLF any request or error, for bytes without one a 400 with no
\* headers
ParseResults(request_bytes) ==
    IF request_bytes = "complete"
    THEN {ParseOk(r) : r \in Requests} \cup {ParseErr(e) : e \in ParseErrors}
    ELSE {ParseErr(e) : e \in {x \in ParseErrors :
                                x.status = "BadRequest" /\ x.headers = <<>>}}

\* s.as_bytes(), for the {text} of the model's requests
AsBytes(text) == CASE text = "hi" -> <<"h", "i">>

\* router.route(&parse_ok, ...): the response the matching handler, or the
\* router itself, hands to send_response
Routed(request) ==
    LET handler == Router_route(request)
    IN  CASE handler = "root_handler" -> root_handler(request)
          [] handler = "chunked_handler" ->
                chunked_handler(request.version, AsBytes(request.path[3]))
          [] handler = "none" -> RouteNotFound(request)

\* the responses Router::route hands to send_response, in the order of the
\* calls: the matching handler sends its response and route returns with
\* it; only when no route matched is the 404 of the router sent
Router_route_sends_falling(request) ==
    IF Router_route(request) = "none" THEN <<RouteNotFound(request)>>
    ELSE <<Routed(request), RouteNotFound(request)>>

Router_route_sends(request) ==
    IF Router_route(request) = "none" THEN <<RouteNotFound(request)>>
    ELSE <<Routed(request)>>

\* the error response of the Err(parse_error) arm
ParseErrorResponse(parse_error) ==
    HttpErrorResponse_new(parse_error.status, parse_error.version,
                          HeaderGet(parse_error.headers, ACCEPT),
                          "Parsing failed")

\* parse_ok.headers.get("Connection").is_some_and(|v| eq_ignore_ascii_case("close"))
ConnectionCloseAsked(headers) ==
    /\ CONNECTION \in DOMAIN headers
    /\ EqIgnoreAsciiCase(headers[CONNECTION], V("close"))

\* what the last step of the loop did
NoStep == [op |-> "accept", headers |-> <<>>, r |-> Ok, logged |-> FALSE]
Step(op, headers, r, logged) ==
    [op |-> op, headers |-> headers, r |-> r, logged |-> logged]

\* the outcomes of send_response called on each response in turn on the
\* one stream of the connection: the bytes of a call follow those of the
\* call before it, and the result is that of the last call
RECURSIVE SendEach(_)
SendEach(responses) ==
    IF Len(responses) = 1 THEN SendOutcomes(responses[1])
    ELSE {[snd EXCEPT !.out = first.out \o snd.out] :
            first \in SendOutcomes(Head(responses)),
            snd \in SendEach(Tail(responses))}

\* the requests of the connection answered so far: the id of the
\* iteration, the arm of the match on the parser's result, and the number
\* of calls of send_response the arm made
Answered(c, op, sends) ==
    Append(c.answers, [req_id |-> c.req_id, op |-> op, sends |-> sends])

\* the top of the loop: a fresh request id and an empty request_bytes
NextIteration(c, step) ==
    [c EXCEPT !.pc = "read", !.request_bytes = "empty",
              !.req_id = c.req_id + 1, !.step = step]

ConnInit ==
    /\ writer = NewWriter("HttpWriter")
    /\ stream = <<>>
    /\ last = Call("new", "Initial", Ok)
    /\ response = NoResponse
    /\ sent = NoSent
    /\ disk = NoDisk
    /\ context = NoCtx
    /\ call = Idle
    /\ parsed = NoParse
    /\ conn = [pc |-> "read", request_bytes |-> "empty", req_id |-> 0,
               peer_closed |-> FALSE, shutdown |-> FALSE,
               io_error |-> FALSE, step |-> NoStep, answers |-> <<>>]

\* one stream.read(&mut buffer) of the inner loop: an error returns from
\* handle_client; 0 bytes leaves the inner loop, and the outer one when
\* nothing was read; bytes are kept, and a CRLF CRLF among them leaves the
\* inner loop. Once the peer has closed no more bytes arrive
Read ==
    /\ conn.pc = "read"
    /\ conn.req_id < MaxRequests
    /\ \E got \in IF conn.peer_closed THEN {"error", "zero"}
                  ELSE {"error", "zero", "bytes", "boundary"} :
        conn' =
            CASE got = "error" ->
                    [conn EXCEPT !.pc = "returned", !.io_error = TRUE,
                                 !.step = Step("read", <<>>, IoError, TRUE)]
              [] got = "zero" ->
                    [conn EXCEPT !.peer_closed = TRUE,
                                 !.pc = IF conn.request_bytes = "empty"
                                        THEN "returned" ELSE "parse",
                                 !.step = Step("read", <<>>, Ok, FALSE)]
              [] got = "bytes" ->
                    [conn EXCEPT !.request_bytes = "partial",
                                 !.step = Step("read", <<>>, Ok, FALSE)]
              [] got = "boundary" ->
                    [conn EXCEPT !.request_bytes = "complete", !.pc = "parse",
                                 !.step = Step("read", <<>>, Ok, FALSE)]
    /\ UNCHANGED <<writer, stream, last, response, sent, disk, context, call,
                   parsed>>

\* the Ok(parse_ok) arm: the request is routed, the handler sends its
\* response and logs a failure of send_response; then Connection: close
\* shuts the socket down and leaves the loop
ServeRequest ==
    /\ conn.pc = "parse"
    /\ \E result \in ParseResults(conn.request_bytes) :
        /\ result.ok
        /\ LET sends == Router_route_sends(result.request)
           IN  /\ response' = sends[Len(sends)]
               /\ \E snd \in SendEach(sends) :
                    /\ stream' = snd.out
                    /\ sent' = [done |-> TRUE, r |-> snd.r,
                                warning |-> snd.warning,
                                chunked |-> snd.chunked]
                    /\ conn' =
                        IF ConnectionCloseAsked(result.request.headers)
                        THEN [conn EXCEPT
                                !.pc = "returned", !.shutdown = TRUE,
                                !.io_error = conn.io_error \/ snd.r = IoError,
                                !.step = Step("request",
                                              result.request.headers,
                                              snd.r, snd.r # Ok),
                                !.answers = Answered(conn, "request",
                                                     Len(sends))]
                        ELSE NextIteration(
                                [conn EXCEPT
                                    !.io_error =
                                        conn.io_error \/ snd.r = IoError,
                                    !.answers = Answered(conn, "request",
                                                         Len(sends))],
                                Step("request", result.request.headers,
                                     snd.r, snd.r # Ok))
    /\ UNCHANGED <<writer, last, disk, context, call, parsed>>

\* the Err(parse_error) arm: an error response is sent, a failure of
\* send_response is logged, and the loop goes on
ServeParseError ==
    /\ conn.pc = "parse"
    /\ \E result \in ParseResults(conn.request_bytes) :
        /\ ~result.ok
        /\ response' = ParseErrorResponse(result.error)
        /\ \E snd \in SendOutcomes(ParseErrorResponse(result.error)) :
            /\ stream' = snd.out
            /\ sent' = [done |-> TRUE, r |-> snd.r, warning |-> snd.warning,
                        chunked |-> snd.chunked]
            /\ conn' = NextIteration(
                        [conn EXCEPT
                            !.io_error = conn.io_error \/ snd.r = IoError,
                            !.answers = Answered(conn, "parse_error", 1)],
                        Step("parse_error", result.error.headers, snd.r, TRUE))
    /\ UNCHANGED <<writer, last, disk, context, call, parsed>>

ConnNext ==
    \/ Read
    \/ ServeRequest
    \/ ServeParseError

ConnSpec == ConnInit /\ [][ConnNext]_vars

---------------------------------------------------------------------------
(* The request parser of request.rs: HttpRequest::parse and the Display of *)
(* HttpRequest.  The request is a sequence of one-character strings, every *)
(* one an ASCII byte, so from_utf8_lossy changes nothing.  A HashMap of    *)
(* headers is a function from keys to values, both sequences of            *)
(* characters.                                                             *)

CR == "\r"
LF == "\n"
CRLF == <<CR, LF>>

\* char::is_whitespace, on the characters of the model
IsWhitespace(c) == c \in {" ", "\t", LF, CR}

\* the byte of a character, the line endings and the tab included
AsByte(c) ==
    CASE c = "\t" -> 9
      [] c = LF -> 10
      [] c = CR -> 13
      [] OTHER -> ByteOf(c)

\* HttpRequest::find_boundary: the offset of the first CRLF CRLF
find_boundary(bytes) ==
    LET IsAt(i) == i + 3 <= Len(bytes) /\ SubSeq(bytes, i, i + 3) = CRLF \o CRLF
    IN  IF \E i \in DOMAIN bytes : IsAt(i)
        THEN Some((CHOOSE i \in DOMAIN bytes :
                       IsAt(i) /\ \A j \in 1 .. i - 1 : ~IsAt(j)) - 1)
        ELSE None

\* a line without its line ending: the '\r' before the '\n' goes with it
StripCr(line) ==
    IF line # <<>> /\ line[Len(line)] = CR
    THEN SubSeq(line, 1, Len(line) - 1)
    ELSE line

RECURSIVE Lines(_)
\* str::lines: the text is cut after every '\n'; a line loses its "\n" or
\* "\r\n"; text after the last '\n' is a line as it stands, and there is
\* no empty line after a final '\n'
Lines(s) ==
    IF s = <<>> THEN <<>>
    ELSE IF \A i \in DOMAIN s : s[i] # LF THEN <<s>>
    ELSE LET at == CHOOSE i \in DOMAIN s :
                       s[i] = LF /\ \A j \in 1 .. i - 1 : s[j] # LF
         IN  <<StripCr(SubSeq(s, 1, at - 1))>> \o Lines(SubSeq(s, at + 1, Len(s)))

\* HttpRequest::bytes_to_lines
bytes_to_lines(bytes) == Lines(bytes)

RECURSIVE TrimStart(_)
TrimStart(s) ==
    IF s # <<>> /\ IsWhitespace(Head(s)) THEN TrimStart(Tail(s)) ELSE s

RECURSIVE TrimEnd(_)
TrimEnd(s) ==
    IF s # <<>> /\ IsWhitespace(s[Len(s)])
    THEN TrimEnd(SubSeq(s, 1, Len(s) - 1))
    ELSE s

\* str::trim
Trim(s) == TrimEnd(TrimStart(s))

\* str::split_once(':'): the text before and after the first colon
split_once(line) ==
    IF \A i \in DOMAIN line : line[i] # ":" THEN None
    ELSE LET at == CHOOSE i \in DOMAIN line :
                       line[i] = ":" /\ \A j \in 1 .. i - 1 : line[j] # ":"
         IN  Some(<<SubSeq(line, 1, at - 1), SubSeq(line, at + 1, Len(line))>>)

RECURSIVE split_whitespace(_)
\* str::split_whitespace: the maximal runs of characters that are not
\* whitespace
split_whitespace(s) ==
    LET rest == TrimStart(s)
    IN  IF rest = <<>> THEN <<>>
        ELSE IF \A i \in DOMAIN rest : ~IsWhitespace(rest[i]) THEN <<rest>>
        ELSE LET at == CHOOSE i \in DOMAIN rest :
                           /\ IsWhitespace(rest[i])
                           /\ \A j \in 1 .. i - 1 : ~IsWhitespace(rest[j])
             IN  <<SubSeq(rest, 1, at - 1)>>
                     \o split_whitespace(SubSeq(rest, at + 1, Len(rest)))

RECURSIVE Join(_, _)
\* [String]::join(sep)
Join(lines, sep) ==
    IF lines = <<>> THEN <<>>
    ELSE IF Len(lines) = 1 THEN lines[1]
    ELSE lines[1] \o sep \o Join(Tail(lines), sep)

\* HashMap::insert
Insert(headers, key, value) ==
    [k \in DOMAIN headers \cup {key} |-> IF k = key THEN value ELSE headers[k]]

\* the outcomes of HttpRequest::parse: Ok(request), Err(ParseError) with the
\* status and the headers of request.rs:8-11, and the panic of a slice
\* index out of range
Parsed(request) == [kind |-> "Ok", request |-> request]
Failed(status, headers) ==
    [kind |-> "Err", error |-> [status |-> status, headers |-> headers]]
Panicked == [kind |-> "Panic"]

\* the match on request_line[0]
MethodOf(token) ==
    CASE Str(token) = "GET" -> Some("Get")
      [] Str(token) = "POST" -> Some("Post")
      [] Str(token) = "PUT" -> Some("Put")
      [] Str(token) = "DELETE" -> Some("Delete")
      [] OTHER -> None

\* the match on request_line[2]
VersionOf(token) ==
    IF Str(token) = "HTTP/1.1" THEN Some("Http1_1") ELSE None

CONTENT_LENGTH_KEY ==
    <<"C", "o", "n", "t", "e", "n", "t", "-", "L", "e", "n", "g", "t", "h">>

\* headers.get("Content-Length").and_then(|v| v.parse::<usize>().ok())
\*     .unwrap_or(0)
content_length_of(headers) ==
    IF CONTENT_LENGTH_KEY \in DOMAIN headers
       /\ Str(headers[CONTENT_LENGTH_KEY]) \in DOMAIN ParseTable
    THEN ParseTable[Str(headers[CONTENT_LENGTH_KEY])]
    ELSE 0

\* the body of the request: all the lines after the boundary joined by
\* '\n', whatever Content-Length says
body_of(body_bytes) ==
    IF body_bytes # <<>> THEN Join(bytes_to_lines(body_bytes), <<LF>>) ELSE <<>>

\* the request line read with the version looked at before the method
parse_request_line_version_first(request_line, headers, body) ==
    IF Len(request_line) # 3 THEN Failed("BadRequest", headers)
    ELSE IF ~IsSome(VersionOf(request_line[3]))
    THEN Failed("BadRequest", headers)
    ELSE IF ~IsSome(MethodOf(request_line[1]))
    THEN Failed("MethodNotAllowed", headers)
    ELSE Parsed([status_line |-> [method |-> Unwrap(MethodOf(request_line[1])),
                                  path |-> request_line[2],
                                  version |-> Unwrap(VersionOf(request_line[3]))],
                 headers |-> headers,
                 body |-> IF content_length_of(headers) > 0
                          THEN Some(body) ELSE None])

\* HttpRequest::parse from the request line on, the headers being parsed
parse_request_line(request_line, headers, body) ==
    IF Len(request_line) # 3 THEN Failed("BadRequest", headers)
    ELSE IF ~IsSome(MethodOf(request_line[1]))
    THEN Failed("MethodNotAllowed", headers)
    ELSE IF ~IsSome(VersionOf(request_line[3]))
    THEN Failed("BadRequest", headers)
    ELSE Parsed([status_line |-> [method |-> Unwrap(MethodOf(request_line[1])),
                                  path |-> request_line[2],
                                  version |-> Unwrap(VersionOf(request_line[3]))],
                 headers |-> headers,
                 body |-> IF content_length_of(headers) > 0
                          THEN Some(body) ELSE None])

RECURSIVE parse_headers(_, _, _, _)
\* the loop with an Err arm that forgets the headers gathered so far
parse_headers_dropping(header_lines, i, headers, body_bytes) ==
    IF i > Len(header_lines)
    THEN parse_request_line(split_whitespace(header_lines[1]), headers,
                            body_of(body_bytes))
    ELSE IF header_lines[i] = <<>>
    THEN parse_headers(header_lines, i + 1, headers, body_bytes)
    ELSE IF ~IsSome(split_once(header_lines[i]))
    THEN Failed("BadRequest", <<>>)
    ELSE parse_headers(header_lines, i + 1,
                       Insert(headers,
                              Trim(Unwrap(split_once(header_lines[i]))[1]),
                              Trim(Unwrap(split_once(header_lines[i]))[2])),
                       body_bytes)

\* the loop over header_lines[1..] at line i, and what follows it
parse_headers(header_lines, i, headers, body_bytes) ==
    IF i > Len(header_lines)
    THEN parse_request_line(split_whitespace(header_lines[1]), headers,
                            body_of(body_bytes))
    ELSE IF header_lines[i] = <<>>
    THEN parse_headers(header_lines, i + 1, headers, body_bytes)
    ELSE IF ~IsSome(split_once(header_lines[i]))
    THEN Failed("BadRequest", headers)
    ELSE parse_headers(header_lines, i + 1,
                       Insert(headers,
                              Trim(Unwrap(split_once(header_lines[i]))[1]),
                              Trim(Unwrap(split_once(header_lines[i]))[2])),
                       body_bytes)

\* HttpRequest::parse after the boundary is found; header_lines[1..] of an
\* empty Vec is out of range
parse_at(request, boundary) ==
    IF bytes_to_lines(SubSeq(request, 1, boundary)) = <<>> THEN Panicked
    ELSE parse_headers(bytes_to_lines(SubSeq(request, 1, boundary)), 2, <<>>,
                       SubSeq(request, boundary + 5, Len(request)))

\* HttpRequest::parse
HttpRequest_parse(request) ==
    IF request = <<>> THEN Failed("BadRequest", <<>>)
    ELSE IF ~IsSome(find_boundary(request)) THEN Failed("BadRequest", <<>>)
    ELSE parse_at(request, Unwrap(find_boundary(request)))

RECURSIVE KeyLess(_, _)
\* the order of String: byte by byte, a prefix first
KeyLess(a, b) ==
    IF b = <<>> THEN FALSE
    ELSE IF a = <<>> THEN TRUE
    ELSE IF AsByte(Head(a)) # AsByte(Head(b)) THEN AsByte(Head(a)) < AsByte(Head(b))
    ELSE KeyLess(Tail(a), Tail(b))

\* headers.sort_by_key(|(key, _)| *key)
SortedKeys(headers) ==
    CHOOSE keys \in SeqOfSet(DOMAIN headers) :
        \A i, j \in DOMAIN keys : i < j => KeyLess(keys[i], keys[j])

MethodChars(method) ==
    CASE method = "Get" -> <<"G", "E", "T">>
      [] method = "Post" -> <<"P", "O", "S", "T">>
      [] method = "Put" -> <<"P", "U", "T">>
      [] method = "Delete" -> <<"D", "E", "L", "E", "T", "E">>

\* Display of request.rs's HttpVersion
VersionChars(version) == <<"H", "T", "T", "P", "/", "1", ".", "1">>

RECURSIVE DisplayHeaders(_, _)
DisplayHeaders(headers, keys) ==
    IF keys = <<>> THEN <<>>
    ELSE Head(keys) \o <<":", " ">> \o headers[Head(keys)] \o CRLF
             \o DisplayHeaders(headers, Tail(keys))

\* Display of HttpRequest
HttpRequest_display(request) ==
    MethodChars(request.status_line.method) \o <<" ">>
        \o request.status_line.path \o <<" ">>
        \o VersionChars(request.status_line.version) \o CRLF
        \o DisplayHeaders(request.headers, SortedKeys(request.headers))
        \o CRLF
        \o (IF IsSome(request.body) THEN Unwrap(request.body) ELSE <<>>)

---------------------------------------------------------------------------
(* ParseSpec: HttpRequest::parse applied to one request, and applied again *)
(* to the Display of the request it returned.  A request is a request      *)
(* line, header lines and what the header region ends with, followed by    *)
(* the bytes of a body.                                                    *)

\* the request lines of the inputs: well formed, with a method or a version
\* the parser does not know, with two and four tokens, and empty
RequestLineTexts ==
    {<<"G", "E", "T", " ", "/", " ", "H", "T", "T", "P", "/", "1", ".", "1">>,
     <<"P", "O", "S", "T", " ", "/", "f", " ", "H", "T", "T", "P", "/", "1",
      ".", "1">>,
     <<"F", "E", "T", "C", "H", " ", "/", " ", "H", "T", "T", "P", "/", "1",
      ".", "1">>,
     <<"G", "E", "T", " ", "/", " ", "H", "T", "T", "P", "/", "1", ".", "0">>,
     <<"G", "E", "T", " ", "/", " ", "H", "T", "T", "P", "/", "2", ".", "0">>,
     <<"F", "E", "T", "C", "H", " ", "/", " ", "H", "T", "T", "P", "/", "2",
      ".", "0">>,
     <<"G", "E", "T", " ", "/">>,
     <<"G", "E", "T", " ", "/", " ", "H", "T", "T", "P", "/", "1", ".", "1",
      " ", "x">>,
     <<>>}

\* the header lines of the inputs: none, well formed ones, a Content-Length
\* under two spellings and with several values, a line without a colon
HeaderBlocks ==
    {<<>>,
     <<<<"H", "o", "s", "t", ":", " ", "x">>>>,
     <<<<"C", "o", "n", "t", "e", "n", "t", "-", "L", "e", "n", "g", "t",
      "h", ":", " ", "3">>>>,
     <<<<"c", "o", "n", "t", "e", "n", "t", "-", "l", "e", "n", "g", "t",
      "h", ":", " ", "3">>>>,
     <<<<"C", "o", "n", "t", "e", "n", "t", "-", "L", "e", "n", "g", "t",
      "h", ":", " ", "0">>>>,
     <<<<"C", "o", "n", "t", "e", "n", "t", "-", "L", "e", "n", "g", "t",
      "h", ":", " ", "x">>>>,
     <<<<"A", "c", "c", "e", "p", "t", ":", " ", "*", "/", "*">>, <<"C", "o",
      "n", "t", "e", "n", "t", "-", "L", "e", "n", "g", "t", "h", ":", " ",
      "3">>>>,
     <<<<"b", "a", "d">>>>,
     <<<<"H", "o", "s", "t", ":", " ", "x">>, <<"b", "a", "d">>>>}

\* what follows the header region: nothing, as many bytes as the
\* Content-Length of the inputs, fewer, more, and bytes with line endings
BodyTexts ==
    {<<>>,
     <<"a", "b", "c">>,
     <<"a", "b">>,
     <<"a", "b", "c", "d">>,
     <<"a", CR, CR, LF, "b">>,
     <<"a", "b", LF>>}

\* the end of the header region: the boundary, one line ending, nothing
Terminators == {CRLF \o CRLF, CRLF, <<>>}

\* the bytes of a request
RequestBytes(request_line, header_lines, terminator, body) ==
    Join(<<request_line>> \o header_lines, CRLF) \o terminator \o body

ParseInputs ==
    {RequestBytes(request_line, header_lines, terminator, body) :
        request_line \in RequestLineTexts, header_lines \in HeaderBlocks,
        terminator \in Terminators, body \in BodyTexts}

NoResult == [kind |-> "None"]

ParseInit ==
    /\ writer = NewWriter("HttpWriter")
    /\ stream = <<>>
    /\ last = Call("new", "Initial", Ok)
    /\ response = NoResponse
    /\ sent = NoSent
    /\ disk = NoDisk
    /\ context = NoCtx
    /\ call = Idle
    /\ conn = NoConn
    /\ \E request \in ParseInputs :
           parsed = [pc |-> "input", request |-> request,
                     result |-> NoResult, again |-> NoResult]

\* HttpRequest::parse(request)
Parse ==
    /\ parsed.pc = "input"
    /\ parsed' = [parsed EXCEPT !.pc = "parsed",
                                !.result = HttpRequest_parse(parsed.request)]
    /\ UNCHANGED <<writer, stream, last, response, sent, disk, context, call,
                   conn>>

\* HttpRequest::parse(request.to_string().as_bytes()) for the request
\* returned
Reparse ==
    /\ parsed.pc = "parsed"
    /\ parsed.result.kind = "Ok"
    /\ parsed' = [parsed EXCEPT
                      !.pc = "reparsed",
                      !.again = HttpRequest_parse(
                                    HttpRequest_display(parsed.result.request))]
    /\ UNCHANGED <<writer, stream, last, response, sent, disk, context, call,
                   conn>>

ParseNext ==
    \/ Parse
    \/ Reparse

ParseSpec == ParseInit /\ [][ParseNext]_vars

---------------------------------------------------------------------------
(* The compression middleware and echo_handler (routes.rs).  An            *)
(* Accept-Encoding header is a sequence of one-character strings; a q is   *)
(* counted in tenths.                                                      *)

MINIMUM_BODY_SIZE == 1024

\* the texts str::parse::<f32> reads, in tenths; any other text of the
\* model is no number
QTable ==
    ("0" :> 0) @@ ("0.0" :> 0) @@ ("0.5" :> 5) @@ ("0.8" :> 8)
    @@ ("0.9" :> 9) @@ ("1" :> 10) @@ ("1.0" :> 10)

\* HttpEncoding::from_encoding_string
from_encoding_string(s) ==
    LET lower == Str([i \in DOMAIN s |-> ToAsciiLowercase(s[i])])
    IN  CASE lower = "gzip" -> Some("Gzip")
          [] lower = "deflate" -> Some("Deflate")
          [] lower \in {"br", "brotli"} -> Some("Brotli")
          [] OTHER -> None

\* impl Display for HttpEncoding
EncodingText(encoding) ==
    CASE encoding = "Gzip" -> "gzip"
      [] encoding = "Deflate" -> "deflate"
      [] encoding = "Brotli" -> "brotli"
      [] encoding = "Identity" -> "identity"

\* the q of a token split at ';' and trimmed: the number after "q=" in the
\* second part, 1.0 when there is none or when it is no number
QualityOf(parts) ==
    IF Len(parts) > 1 /\ Len(parts[2]) >= 2
       /\ SubSeq(parts[2], 1, 2) = <<"q", "=">>
    THEN IF Str(SubSeq(parts[2], 3, Len(parts[2]))) \in DOMAIN QTable
         THEN QTable[Str(SubSeq(parts[2], 3, Len(parts[2])))]
         ELSE 10
    ELSE 10

\* one token of the header: its name and its q; ("", 0.0) for an empty name
quality_split(token) ==
    LET raw == Split(Trim(token), ";")
        parts == [i \in DOMAIN raw |-> Trim(raw[i])]
    IN  IF parts[1] = <<>> THEN [name |-> <<>>, q |-> 0]
        ELSE [name |-> parts[1], q |-> QualityOf(parts)]

RECURSIVE SortDescending(_)
\* sort_by(|a, b| b.1.partial_cmp(&a.1)): descending by q, tokens of equal q
\* staying in the order of the header
SortDescending(items) ==
    IF items = <<>> THEN <<>>
    ELSE LET best == CHOOSE i \in DOMAIN items :
                         /\ \A j \in DOMAIN items : items[j].q <= items[i].q
                         /\ \A j \in 1 .. i - 1 : items[j].q < items[i].q
         IN  <<items[best]>>
                 \o SortDescending([i \in 1 .. Len(items) - 1 |->
                                       IF i < best THEN items[i]
                                       ELSE items[i + 1]])

\* HttpEncoding::parse_accept_encoding: the recognized encodings of the
\* tokens with q > 0, by descending q
parse_accept_encoding(header) ==
    LET tokens == Split(header, ",")
        quality == [i \in DOMAIN tokens |-> quality_split(tokens[i])]
        sorted_quality == SortDescending(SelectSeq(quality, LAMBDA t : t.q > 0))
        known == SelectSeq(sorted_quality,
                           LAMBDA t : IsSome(from_encoding_string(t.name)))
    IN  [i \in DOMAIN known |->
            [enc |-> Unwrap(from_encoding_string(known[i].name)),
             q |-> known[i].q]]

ChosenEncoding_last(body_len, accept_encoding) ==
    IF body_len < MINIMUM_BODY_SIZE THEN "Identity"
    ELSE IF ~IsSome(accept_encoding) THEN "Identity"
    ELSE IF parse_accept_encoding(Unwrap(accept_encoding)) = <<>>
    THEN "Identity"
    ELSE parse_accept_encoding(Unwrap(accept_encoding))[
             Len(parse_accept_encoding(Unwrap(accept_encoding)))].enc

\* the encoding CompressionMiddleware::apply chooses for a body of body_len
\* bytes
ChosenEncoding(body_len, accept_encoding) ==
    IF body_len < MINIMUM_BODY_SIZE THEN "Identity"
    ELSE IF ~IsSome(accept_encoding) THEN "Identity"
    ELSE IF parse_accept_encoding(Unwrap(accept_encoding)) = <<>>
    THEN "Identity"
    ELSE parse_accept_encoding(Unwrap(accept_encoding))[1].enc

RECURSIVE Repeat(_, _)
\* the text of n times the character c
Repeat(c, n) ==
    IF n = 0 THEN ""
    ELSE Repeat(c, n \div 2) \o Repeat(c, n \div 2)
             \o (IF n % 2 = 1 THEN c ELSE "")

\* the bytes compress_gzip, compress_deflate and compress_brotli return: the
\* codecs are libraries; their output is as many bytes as the codec makes
\* of the body, each written here as the first letter of the encoding
CompressedBytes(encoding, compressed_len) ==
    Repeat(CASE encoding = "Gzip" -> "g"
             [] encoding = "Deflate" -> "d"
             [] encoding = "Brotli" -> "b",
           compressed_len)

\* CompressionMiddleware::apply: the CompressedResponse, compressed_len being
\* the length of the codec's output
CompressionMiddleware_apply(original, accept_encoding, compressed_len) ==
    [original |-> original,
     encoding |-> EncodingText(ChosenEncoding(Len(original.body),
                                              accept_encoding)),
     compressed_body |->
        IF ChosenEncoding(Len(original.body), accept_encoding) = "Identity"
        THEN original.body
        ELSE CompressedBytes(ChosenEncoding(Len(original.body),
                                            accept_encoding),
                             compressed_len)]

\* HashMap::remove: the map without exactly that key
Remove(headers, key) == [k \in DOMAIN headers \ {key} |-> headers[k]]

\* impl HttpWritable for CompressedResponse: headers()
CompressedResponse_headers(compressed) ==
    (CONTENT_LENGTH :> V(UsizeToString(Len(compressed.compressed_body))))
    @@ (IF compressed.encoding # "identity"
        THEN CONTENT_ENCODING :> V(compressed.encoding)
        ELSE <<>>)
    @@ Remove(compressed.original.headers, CONTENT_LENGTH)

\* the CompressedResponse as send_response reads it: status_line() of the
\* original, headers() and body()
CompressedResponse_writable(compressed) ==
    Writable(compressed.original.version, compressed.original.status,
             CompressedResponse_headers(compressed),
             compressed.compressed_body)

\* echo_handler: the CompressedResponse it hands to send_response
echo_handler(version, connection_header, accept_header, accept_encoding, text, compressed_len) ==
    CompressionMiddleware_apply(
        HttpResponse_with_negotiation("Ok", version, connection_header,
                                      text, accept_header, FALSE),
        accept_encoding, compressed_len)

---------------------------------------------------------------------------
(* FileSpec: GET with a Range header and POST with a body on               *)
(* /files/{filename}, over a served directory /srv that holds a file f of  *)
(* three bytes and an empty file e.  The body of a POST is what            *)
(* HttpRequest::parse makes of the bytes the client sent after the         *)
(* boundary, its Content-Length being their number.                        *)

FileDisk ==
    (<<"srv">> :> Dir)
    @@ (<<"srv", "f">> :> File(<<"0", "1", "2">>))
    @@ (<<"srv", "e">> :> File(<<>>))
    @@ (<<"srv", "n">> :> Absent)

\* the filenames of the requests: the two files and a missing one
ServedNames == {<<"f">>, <<"e">>, <<"n">>}

\* the Range headers of the requests: absent, ranges inside the file, ranges
\* that end or start beyond it or run backwards, and values that are no range
RangeHeaders ==
    {None,
     Some(<<"b", "y", "t", "e", "s", "=", "0", "-">>),
     Some(<<"b", "y", "t", "e", "s", "=", "1", "-", "2">>),
     Some(<<"b", "y", "t", "e", "s", "=", "0", "-", "1">>),
     Some(<<"b", "y", "t", "e", "s", "=", "2", "-", "5">>),
     Some(<<"b", "y", "t", "e", "s", "=", "2", "-", "1">>),
     Some(<<"b", "y", "t", "e", "s", "=", "3", "-">>),
     Some(<<"b", "y", "t", "e", "s", "=", "-", "1">>),
     Some(<<"l", "i", "n", "e", "s", "=", "0", "-", "1">>)}

\* the Connection headers of the requests: absent, close
ConnectionHeaders == {<<>>, V("close")}

\* the bytes a POST carries after the boundary
PostBodies == {<<>>, <<"w", "x">>, <<"w", LF>>}

\* the filenames of the POSTs: the empty file and the missing one
PostedNames == {<<"e">>, <<"n">>}

\* the body of the request HttpRequest::parse returns for these bytes under
\* a Content-Length that counts them
ParsedBody(body_bytes) ==
    IF Len(body_bytes) > 0 THEN Some(body_of(body_bytes)) ELSE None

FileInit ==
    /\ writer = NewWriter("HttpWriter")
    /\ stream = <<>>
    /\ last = Call("new", "Initial", Ok)
    /\ response = NoResponse
    /\ sent = NoSent
    /\ disk = FileDisk
    /\ context = ServerContext_new(FileDisk, <<"srv">>).ctx
    /\ call = Idle
    /\ conn = NoConn
    /\ parsed = NoParse

\* file_handler has answered: what it did and what send_response made of
\* its response
FileAnswered(method, version, connection_header, range_header, body_bytes, filename, out) ==
    /\ disk' = out.files
    /\ response' = out.response
    /\ call' = [op |-> "file_handler", method |-> method, name |-> filename,
                res |-> out.res, read |-> out.read,
                connection |-> connection_header, range |-> range_header,
                body |-> body_bytes]
    /\ \E snd \in SendOutcomes(out.response) :
        /\ stream' = snd.out
        /\ sent' = [done |-> TRUE, r |-> snd.r, warning |-> snd.warning,
                    chunked |-> snd.chunked]
    /\ UNCHANGED <<writer, last, context, conn, parsed>>

\* file_handler serving GET /files/{filename}
FileGet ==
    /\ call.op = "idle"
    /\ \E version \in HttpVersion, connection_header \in ConnectionHeaders,
          range_header \in RangeHeaders, filename \in ServedNames :
        FileAnswered("Get", version, connection_header, range_header, <<>>,
                     filename,
                     file_handler(context, disk, "Get", version,
                                  connection_header, range_header, None,
                                  filename))

\* file_handler serving POST /files/{filename}
FilePost ==
    /\ call.op = "idle"
    /\ \E version \in HttpVersion, connection_header \in ConnectionHeaders,
          body_bytes \in PostBodies, filename \in PostedNames :
        FileAnswered("Post", version, connection_header, None, body_bytes,
                     filename,
                     file_handler(context, disk, "Post", version,
                                  connection_header, None,
                                  ParsedBody(body_bytes), filename))

FileNext ==
    \/ FileGet
    \/ FilePost
    \/ NextRequest

FileSpec == FileInit /\ [][FileNext]_vars

---------------------------------------------------------------------------
(* EchoSpec: echo_handler serving GET /echo/{text} with an Accept-Encoding *)
(* header that lists up to MaxTokens tokens name[;q=value], and the        *)
(* middleware wrapping an error response.                                  *)

\* a token of an Accept-Encoding header: a name and the text of its q, if any
EncodingTokens ==
    {[name |-> <<"g", "z", "i", "p">>, q |-> None],
     [name |-> <<"g", "z", "i", "p">>, q |-> Some(<<"0", ".", "5">>)],
     [name |-> <<"d", "e", "f", "l", "a", "t", "e">>, q |-> Some(<<"0", ".", "9">>)],
     [name |-> <<"b", "r">>, q |-> Some(<<"0">>)],
     [name |-> <<"b", "r">>, q |-> None],
     [name |-> <<"z", "s", "t", "d">>, q |-> None]}

\* the lists of at most n tokens
TokenLists(n) ==
    UNION {[1 .. k -> EncodingTokens] : k \in 0 .. n}

\* the text of a token
TokenText(token) ==
    IF IsSome(token.q) THEN token.name \o <<";", "q", "=">> \o Unwrap(token.q)
    ELSE token.name

\* the text of the header: the tokens separated by ", "
AcceptEncodingText(tokens) ==
    Join([i \in DOMAIN tokens |-> TokenText(tokens[i])], <<",", " ">>)

\* a text of n bytes
TextOfLen(n) == Repeat("a", n)

\* the lengths of the echoed text: two bytes, one byte less than the floor of
\* the middleware, the floor
TextLens == {2, MINIMUM_BODY_SIZE - 1, MINIMUM_BODY_SIZE}

\* the length a codec's output is given
CompressedLens == {29}

EchoInit ==
    /\ writer = NewWriter("HttpWriter")
    /\ stream = <<>>
    /\ last = Call("new", "Initial", Ok)
    /\ response = NoResponse
    /\ sent = NoSent
    /\ disk = NoDisk
    /\ context = NoCtx
    /\ call = Idle
    /\ conn = NoConn
    /\ parsed = NoParse

\* the middleware has wrapped a response: what it was given and what it
\* made of it
Wrapped(op, tokens, accept_encoding, compressed) ==
    /\ response' = CompressedResponse_writable(compressed)
    /\ call' = [op |-> op, tokens |-> tokens,
                accept_encoding |-> accept_encoding,
                original |-> compressed.original,
                encoding |-> compressed.encoding]

\* echo_handler has answered: send_response writes the CompressedResponse
EchoAnswered(tokens, accept_encoding, compressed) ==
    /\ Wrapped("echo_handler", tokens, accept_encoding, compressed)
    /\ \E snd \in SendOutcomes(CompressedResponse_writable(compressed)) :
        /\ stream' = snd.out
        /\ sent' = [done |-> TRUE, r |-> snd.r, warning |-> snd.warning,
                    chunked |-> snd.chunked]
    /\ UNCHANGED <<writer, last, disk, context, conn, parsed>>

\* the Accept headers of the requests
EchoAccepts == {None, Some(V("application/octet-stream"))}

\* echo_handler serving a request without Accept-Encoding
EchoPlain ==
    /\ call.op = "idle"
    /\ \E version \in HttpVersion, n \in TextLens,
          accept_header \in EchoAccepts :
        EchoAnswered(<<>>, None,
                     echo_handler(version, <<>>, accept_header, None,
                                  TextOfLen(n), 0))

\* echo_handler serving a request with an Accept-Encoding header
EchoEncoded ==
    /\ call.op = "idle"
    /\ \E version \in HttpVersion, n \in TextLens,
          accept_header \in EchoAccepts,
          tokens \in TokenLists(MaxTokens), compressed_len \in CompressedLens :
        EchoAnswered(tokens, Some(AcceptEncodingText(tokens)),
                     echo_handler(version, <<>>, accept_header,
                                  Some(AcceptEncodingText(tokens)),
                                  TextOfLen(n), compressed_len))

\* CompressionMiddleware::apply takes any HttpWritable: here the other one
\* of the crate, an HttpErrorResponse, with a message of n bytes
WrapError ==
    /\ call.op = "idle"
    /\ \E version \in HttpVersion, n \in TextLens,
          tokens \in TokenLists(1), compressed_len \in CompressedLens :
        Wrapped("apply", tokens, Some(AcceptEncodingText(tokens)),
                CompressionMiddleware_apply(
                    HttpErrorResponse_new("NotFound", version, None,
                                          TextOfLen(n)),
                    Some(AcceptEncodingText(tokens)), compressed_len))
    /\ UNCHANGED <<writer, stream, last, sent, disk, context, conn, parsed>>

EchoNext ==
    \/ EchoPlain
    \/ EchoEncoded
    \/ WrapError
    \/ NextRequest

EchoSpec == EchoInit /\ [][EchoNext]_vars

---------------------------------------------------------------------------
(* RouteSpec: Router::route on a parsed request, over the requests of      *)
(* ConnSpec's paths with every Accept value the negotiation knows, one it  *)
(* does not know, and an Accept header sent with a lower-case name.        *)

accept_lc == Recase(ACCEPT, "lower")

RouteHeaders ==
    {<<>>,
     ACCEPT :> V("text/html"),
     ACCEPT :> V("application/json"),
     ACCEPT :> V("text/plain"),
     ACCEPT :> V("application/octet-stream"),
     ACCEPT :> V("image/png"),
     accept_lc :> V("application/json"),
     (ACCEPT :> V("text/html")) @@ (CONNECTION :> V("close"))}

RouteRequests ==
    [method : {"Get", "Post"},
     path : {<<"", "">>, <<"", "chunked", "hi">>, <<"", "nope">>,
             <<"", "chunked">>},
     version : HttpVersion,
     headers : RouteHeaders,
     body : {None}]

RouteInit ==
    /\ writer = NewWriter("HttpWriter")
    /\ stream = <<>>
    /\ last = Call("new", "Initial", Ok)
    /\ response = NoResponse
    /\ sent = NoSent
    /\ disk = NoDisk
    /\ context = NoCtx
    /\ call = Idle
    /\ conn = NoConn
    /\ parsed = NoParse

\* router.route(&request, ...): the matching handler, or the router itself
\* when no route matches, builds a response and send_response writes it
RouteRequest ==
    /\ call.op = "idle"
    /\ \E request \in RouteRequests :
        /\ call' = [op |-> "route", request |-> request]
        /\ response' = Routed(request)
        /\ \E snd \in SendOutcomes(Routed(request)) :
            /\ stream' = snd.out
            /\ sent' = [done |-> TRUE, r |-> snd.r, warning |-> snd.warning,
                        chunked |-> snd.chunked]
    /\ UNCHANGED <<writer, last, disk, context, conn, parsed>>

RouteNext ==
    \/ RouteRequest
    \/ NextRequest

RouteSpec == RouteInit /\ [][RouteNext]_vars

---------------------------------------------------------------------------
(* DecideSpec: decide_chunking on every version and every header map of    *)
(* SendSpec, the HashMap yielding its headers in any order.                *)

DecideInit ==
    /\ writer = NewWriter("HttpWriter")
    /\ stream = <<>>
    /\ last = Call("new", "Initial", Ok)
    /\ response = NoResponse
    /\ sent = NoSent
    /\ disk = NoDisk
    /\ context = NoCtx
    /\ call = Idle
    /\ conn = NoConn
    /\ parsed = NoParse

\* one call of decide_chunking: its arguments and the decision it returns
Decide ==
    /\ call.op = "idle"
    /\ \E version \in HttpVersion, headers \in HeaderMaps(SendNames, SendValues) :
        \E order \in SeqOfSet(DOMAIN headers) :
            call' = [op |-> "decide_chunking", version |-> version,
                     headers |-> headers,
                     decision |-> decide_chunking(version, headers, order)]
    /\ UNCHANGED <<writer, stream, last, response, sent, disk, context, conn,
                   parsed>>

DecideNext ==
    \/ Decide
    \/ NextRequest

DecideSpec == DecideInit /\ [][DecideNext]_vars

---------------------------------------------------------------------------
(* MatchSpec: the matching of Router::route, on the router Router::new     *)
(* builds and on one that has registered a further route whose pattern     *)
(* overlaps the default ones, for requests of every method and of paths of *)
(* up to MaxSegments segments.                                             *)

MaxSegments == 3

\* Router::new() followed by router.get("/{filename}/{text}", ...)
Router_with_overlap ==
    Router_new
    \o <<Route("Get", <<"", "{filename}", "{text}">>, "user_agent_handler")>>

Routers == {Router_new, Router_with_overlap}

\* what stands between the '/' of the request paths
RequestSegments == {"", "echo", "files", "user-agent", "hi"}

\* request.status_line.path.split('/') of the requests
SplitPaths == UNION {[1..n -> RequestSegments] : n \in 1..MaxSegments}

MatchInit ==
    /\ writer = NewWriter("HttpWriter")
    /\ stream = <<>>
    /\ last = Call("new", "Initial", Ok)
    /\ response = NoResponse
    /\ sent = NoSent
    /\ disk = NoDisk
    /\ context = NoCtx
    /\ call = Idle
    /\ conn = NoConn
    /\ parsed = NoParse

\* router.route(&request, ...) up to the call of the handler
Match ==
    /\ call.op = "idle"
    /\ \E routes \in Routers, method \in {"Get", "Post", "Put", "Delete"},
          path \in SplitPaths :
        LET request == [method |-> method, path |-> path]
            at == Router_route_at(routes, request)
        IN  call' = [op |-> "match", routes |-> routes, request |-> request,
                     at |-> at,
                     handler |-> IF at = 0 THEN "none" ELSE routes[at].handler,
                     params |-> IF at = 0 THEN <<>>
                                ELSE RouteParams(routes[at], request)]
    /\ UNCHANGED <<writer, stream, last, response, sent, disk, context, conn,
                   parsed>>

MatchNext ==
    \/ Match
    \/ NextRequest

MatchSpec == MatchInit /\ [][MatchNext]_vars

---------------------------------------------------------------------------
(* PostSpec: MaxWorkers workers, each serving one POST /files/{filename}   *)
(* for the same filename over the shared directory /srv.  The handler of a *)
(* worker touches the filesystem twice, in resolve_path (candidate.exists) *)
(* and in fs::write; the steps of different workers interleave freely      *)
(* between the two.  Each worker answers on its own stream.                *)

MaxWorkers == 2

Workers == 1..MaxWorkers

\* the bytes the workers post
WorkerBodies == {<<"w">>, <<"x">>, <<"w", "x">>}

\* a worker that has accepted its request and not yet called the handler
Accepted(body) ==
    [pc |-> "resolve", body |-> body, res |-> NotResolved, before |-> FALSE,
     status |-> ""]

PostInit ==
    /\ writer = NewWriter("HttpWriter")
    /\ stream = <<>>
    /\ last = Call("new", "Initial", Ok)
    /\ response = NoResponse
    /\ sent = NoSent
    /\ disk = FileDisk
    /\ context = ServerContext_new(FileDisk, <<"srv">>).ctx
    /\ \E filename \in PostedNames, bodies \in [Workers -> WorkerBodies] :
        call = [op |-> "workers", name |-> filename,
                was |-> exists(FileDisk, <<"srv">> \o filename),
                of |-> [w \in Workers |-> Accepted(bodies[w])]]
    /\ conn = NoConn
    /\ parsed = NoParse

\* worker w is at step pc of its handler
WorkerAt(w, pc) == call.op = "workers" /\ call.of[w].pc = pc

\* ctx.resolve_path(filename, PathIntent::Write, req_id) of worker w
PostResolve(w) ==
    /\ WorkerAt(w, "resolve")
    /\ LET res == resolve_path(context, disk, call.name, "Write")
       IN  call' = [call EXCEPT !.of[w].res = res,
                                !.of[w].pc = IF res.r = "Ok" THEN "write"
                                             ELSE "answered",
                                !.of[w].status =
                                    IF res.r = "Ok" THEN ""
                                    ELSE file_handler_post(
                                             disk, "HTTP/1.1", call.name, res,
                                             WriteResolved(disk, res, <<>>)
                                         ).response.status]
    /\ UNCHANGED <<writer, stream, last, response, sent, disk, context, conn,
                   parsed>>

\* fs::write(resolved.path(), content) of worker w and the status of its
\* response; before records whether the file was there when the write began
PostWrite(w) ==
    /\ WorkerAt(w, "write")
    /\ LET me == call.of[w]
           wrote == WriteResolved(disk, me.res, me.body)
           out == file_handler_post(disk, "HTTP/1.1", call.name, me.res, wrote)
       IN  /\ disk' = out.files
           /\ call' = [call EXCEPT !.of[w].pc = "answered",
                                   !.of[w].before = exists(disk, me.res.path),
                                   !.of[w].status = out.response.status]
    /\ UNCHANGED <<writer, stream, last, response, sent, context, conn,
                   parsed>>

PostNext == \E w \in Workers : PostResolve(w) \/ PostWrite(w)

PostSpec == PostInit /\ [][PostNext]_vars

---------------------------------------------------------------------------
(* IdSpec: MaxWorkers workers, each running the loop of handle_client on   *)
(* a clone of one ServerContext for up to MaxRequests requests.  A clone   *)
(* shares the request counter (an Arc) and copies the two paths, so the    *)
(* one variable context stands for all clones.  The counter is an          *)
(* AtomicU64; it is kept here in CounterBits bits, and a server may have   *)
(* handed out any number of ids before the workers start.                  *)

CounterBits == 3

CounterModulus == 2 ^ CounterBits

\* the ids a server has handed out before: none, or all but the last two
\* before the counter wraps
IssuedBefore == {0, CounterModulus - 2}

\* self.request_counter.fetch_add(1, Ordering::Relaxed): one atomic step
\* that returns the previous value and adds one, wrapping at the width
next_request_id_stuck(ctx) ==
    [id |-> ctx.request_counter, ctx |-> ctx]

next_request_id(ctx) ==
    [id |-> ctx.request_counter,
     ctx |-> [ctx EXCEPT !.request_counter = (@ + 1) % CounterModulus]]

\* the paths the requests of the workers name
IdPaths == {<<"f">>, <<".", ".">>}

IdInit ==
    /\ writer = NewWriter("HttpWriter")
    /\ stream = <<>>
    /\ last = Call("new", "Initial", Ok)
    /\ response = NoResponse
    /\ sent = NoSent
    /\ disk = FileDisk
    /\ \E issued \in IssuedBefore :
        context = [ServerContext_new(FileDisk, <<"srv">>).ctx
                       EXCEPT !.request_counter = issued]
    /\ call = [op |-> "ids", log |-> <<>>, res |-> NotResolved,
               of |-> [w \in Workers |-> [pc |-> "top", served |-> 0]]]
    /\ conn = NoConn
    /\ parsed = NoParse

\* let req_id = ctx.next_request_id() at the top of the loop of worker w
TakeId(w) ==
    /\ call.op = "ids"
    /\ call.of[w].pc = "top"
    /\ call.of[w].served < MaxRequests
    /\ LET got == next_request_id(context)
       IN  /\ context' = got.ctx
           /\ call' = [call EXCEPT
                          !.log = Append(@, [w |-> w, id |-> got.id]),
                          !.of[w].pc = "serve"]
    /\ UNCHANGED <<writer, stream, last, response, sent, disk, conn, parsed>>

\* the handler of worker w resolves the path of its request with the id it
\* holds, and the worker returns to the top of its loop
ServeWithId(w) ==
    /\ call.op = "ids"
    /\ call.of[w].pc = "serve"
    /\ \E req_path \in IdPaths :
        call' = [call EXCEPT
                    !.res = resolve_path(context, disk, req_path, "Read"),
                    !.of[w].served = @ + 1,
                    !.of[w].pc = "top"]
    /\ UNCHANGED <<writer, stream, last, response, sent, disk, context, conn,
                   parsed>>

IdNext == \E w \in Workers : TakeId(w) \/ ServeWithId(w)

IdSpec == IdInit /\ [][IdNext]_vars

---------------------------------------------------------------------------
(* ReaderSpec: the read loop of handle_client on a connection whose client *)
(* sends one POST with a Content-Length of 1..MaxBody and as many body     *)
(* bytes, and then closes.  The bytes arrive in reads that end at the      *)
(* request line, inside the CRLF CRLF, at its end, or after any body byte. *)

PostLine ==
    <<"P", "O", "S", "T", " ", "/", "f", " ", "H", "T", "T", "P", "/", "1",
      ".", "1">>

\* the decimal digit of n < 10
DigitChar(n) == <<"0", "1", "2", "3", "4", "5", "6", "7", "8", "9">>[n + 1]

ContentLengthLine(n) ==
    <<"C", "o", "n", "t", "e", "n", "t", "-", "L", "e", "n", "g", "t", "h",
      ":", " ", DigitChar(n)>>

\* the bodies the client sends
SentBodies == UNION {[1..n -> {"w", "x"}] : n \in 1..MaxBody}

\* the bytes of the request up to and with the CRLF CRLF
HeadOf(body) ==
    RequestBytes(PostLine, <<ContentLengthLine(Len(body))>>, CRLF \o CRLF,
                 <<>>)

\* where a read may end, counted in bytes of the wire
ReadEnds(body) ==
    {Len(PostLine), Len(HeadOf(body)) - 2}
    \cup {Len(HeadOf(body)) + k : k \in 0..Len(body)}

ReaderInit ==
    /\ writer = NewWriter("HttpWriter")
    /\ stream = <<>>
    /\ last = Call("new", "Initial", Ok)
    /\ response = NoResponse
    /\ sent = NoSent
    /\ disk = NoDisk
    /\ context = NoCtx
    /\ call = Idle
    /\ parsed = [done |-> FALSE, result |-> NoResult, handed |-> <<>>]
    /\ \E body \in SentBodies :
        conn = [pc |-> "read", request_bytes |-> <<>>, req_id |-> 0,
                io_error |-> FALSE, body |-> body, delivered |-> 0]

\* request_bytes.windows(4).any(|window| window == b"\r\n\r\n")
HasBoundary(bytes) == IsSome(find_boundary(bytes))

\* stream.read returns Ok(n), n > 0: the bytes are appended, and a CRLF CRLF
\* among the bytes read so far leaves the inner loop
ReadBytes ==
    /\ conn.pc = "read"
    /\ conn.req_id < MaxRequests
    /\ \E upto \in ReadEnds(conn.body) :
        /\ upto > conn.delivered
        /\ LET wire == HeadOf(conn.body) \o conn.body
               bytes == conn.request_bytes
                            \o SubSeq(wire, conn.delivered + 1, upto)
           IN  conn' = [conn EXCEPT
                           !.request_bytes = bytes,
                           !.delivered = upto,
                           !.pc = IF HasBoundary(bytes) THEN "parse"
                                  ELSE "read"]
    /\ UNCHANGED <<writer, stream, last, response, sent, disk, context, call,
                   parsed>>

\* stream.read returns Ok(0), the client having sent everything and closed:
\* the inner loop is left, and the outer one when nothing was read
ReadZero ==
    /\ conn.pc = "read"
    /\ conn.req_id < MaxRequests
    /\ conn.delivered = Len(HeadOf(conn.body)) + Len(conn.body)
    /\ conn' = [conn EXCEPT !.pc = IF conn.request_bytes = <<>>
                                   THEN "returned" ELSE "parse"]
    /\ UNCHANGED <<writer, stream, last, response, sent, disk, context, call,
                   parsed>>

\* stream.read returns Err(e): handle_client returns
ReadError ==
    /\ conn.pc = "read"
    /\ conn.req_id < MaxRequests
    /\ conn' = [conn EXCEPT !.pc = "returned", !.io_error = TRUE]
    /\ UNCHANGED <<writer, stream, last, response, sent, disk, context, call,
                   parsed>>

\* request::HttpRequest::parse(&request_bytes) on what the inner loop
\* gathered; the loop then starts over with an empty request_bytes
HandToParser ==
    /\ conn.pc = "parse"
    /\ parsed' = [done |-> TRUE,
                  result |-> HttpRequest_parse(conn.request_bytes),
                  handed |-> conn.request_bytes]
    /\ conn' = [conn EXCEPT !.pc = "read", !.request_bytes = <<>>,
                            !.req_id = @ + 1]
    /\ UNCHANGED <<writer, stream, last, response, sent, disk, context, call>>

ReaderNext ==
    \/ ReadBytes
    \/ ReadZero
    \/ ReadError
    \/ HandToParser

ReaderSpec == ReaderInit /\ [][ReaderNext]_vars

---------------------------------------------------------------------------
(* Properties of the writers, checked under Spec.                          *)

Completed(kind) == last.op = "complete_write" /\ writer.kind = kind

\* the byte length of the body the writer holds, 0 when none was written
BodyLenHeld == IF IsSome(writer.body) THEN Len(Unwrap(writer.body)) ELSE 0

\* the header map holds a name equal to name ignoring ASCII case
HasHeaderCI(headers, name) ==
    \E k \in DOMAIN headers : EqIgnoreAsciiCase(k, name)

\* the lengths of the model's bodies in hexadecimal, written out
HexOf(n) ==
    CASE n = 1 -> "1" [] n = 2 -> "2" [] n = 3 -> "3" [] n = 4 -> "4"
      [] n = 10 -> "a" [] n = 16 -> "10"

WriterOps ==
    {"write_status_line", "write_header", "finish_headers", "write_body"}

LegalFrom(op) ==
    CASE op = "write_status_line" -> {"Initial"}
      [] op = "write_header" -> {"StatusWritten", "HeadersOpen"}
      [] op = "finish_headers" -> {"StatusWritten", "HeadersOpen"}
      [] op = "write_body" -> {"HeadersClosed"}
      [] op = "complete_write" -> {"HeadersClosed", "BodyWritten"}

MovesTo(op) ==
    CASE op = "write_status_line" -> "StatusWritten"
      [] op = "write_header" -> "HeadersOpen"
      [] op = "finish_headers" -> "HeadersClosed"
      [] op = "write_body" -> "BodyWritten"

C3_Step ==
    /\ last'.op \in WriterOps =>
        IF writer.state \in LegalFrom(last'.op)
        THEN last'.r = Ok /\ writer'.state = MovesTo(last'.op)
        ELSE /\ last'.r = InvalidState
             /\ writer'.status_line = writer.status_line
             /\ writer'.headers = writer.headers
             /\ writer'.body = writer.body
             /\ writer'.state \notin
                    {"StatusWritten", "HeadersOpen", "HeadersClosed",
                     "BodyWritten"}
             /\ stream' = stream
    /\ (last'.op = "complete_write"
        /\ writer.state \notin LegalFrom("complete_write"))
        => last'.r = InvalidState /\ stream' = stream

\* C3: for both writers and every sequence of calls, each of
\* write_status_line, write_header, finish_headers and write_body returns Ok
\* exactly in its legal states and then moves to the state the table gives;
\* in any other state it returns InvalidState and neither the status line,
\* the headers, the body nor the stream change; complete_write outside
\* HeadersClosed and BodyWritten returns InvalidState and writes nothing.
C3_StateMachine == [][C3_Step]_vars

\* write_body called on a ChunkedWriter whose headers are still open
C3_Witness ==
    /\ writer.kind = "ChunkedWriter"
    /\ last = Call("write_body", "HeadersOpen", InvalidState)
    /\ writer.state = "Failed"
    /\ ~IsSome(writer.body)

\* C8: on every successful ChunkedWriter::complete_write the stream holds,
\* in this order, the status line, every header of the map once as
\* "Name: value CRLF", a blank CRLF, then, only if the body is non-empty,
\* one chunk "hex(len) CRLF body CRLF", and last the terminator
\* "0 CRLF CRLF".
C8_ChunkedWireOrder ==
    (Completed("ChunkedWriter") /\ last.r = Ok) =>
        LET n == Cardinality(DOMAIN writer.headers)
            rest == SubSeq(stream, n + 3, Len(stream))
        IN  /\ Len(stream) >= n + 3
            /\ stream[1] = PStatus(Unwrap(writer.status_line))
            /\ \A i \in 2 .. n + 1 :
                /\ stream[i].t = "header"
                /\ stream[i].name \in DOMAIN writer.headers
                /\ stream[i].value = writer.headers[stream[i].name]
            /\ {stream[i].name : i \in 2 .. n + 1} = DOMAIN writer.headers
            /\ stream[n + 2].t = "crlf" /\ stream[n + 2].text = "\r\n"
            /\ stream[Len(stream)].text = "0\r\n\r\n"
            /\ IF IsSome(writer.body)
               THEN /\ Unwrap(writer.body) # <<>>
                    /\ Len(rest) = 4
                    /\ rest[1].text = HexOf(Len(Unwrap(writer.body))) \o "\r\n"
                    /\ rest[2].t = "data"
                    /\ rest[2].data = Unwrap(writer.body)
                    /\ rest[3].text = "\r\n"
               ELSE Len(rest) = 1

\* body "hi": the wire ends 2 CRLF hi CRLF 0 CRLF CRLF
C8_Witness ==
    /\ Completed("ChunkedWriter") /\ last.r = Ok
    /\ writer.body = Some(<<"h", "i">>)
    /\ Len(stream) = 7
    /\ stream[4].text = "2\r\n"
    /\ stream[5].data = <<"h", "i">>
    /\ stream[6].text = "\r\n"
    /\ stream[7].text = "0\r\n\r\n"

\* C9, as claimed: ChunkedWriter::complete_write returns an error and writes
\* nothing unless the header map holds Transfer-Encoding: chunked and holds
\* no Content-Length header (header names compared ignoring case).
C9_Claim ==
    Completed("ChunkedWriter") =>
        \/ /\ TRANSFER_ENCODING \in DOMAIN writer.headers
           /\ writer.headers[TRANSFER_ENCODING] = CHUNKED
           /\ ~HasHeaderCI(writer.headers, CONTENT_LENGTH)
        \/ last.r # Ok /\ stream = <<>>

\* C10, as claimed: HttpWriter::complete_write, its state check passed,
\* succeeds only if a Content-Length header is present, presence decided
\* ignoring the case of the name, with a value that parses as a non-negative
\* integer; an absent header yields MissingHeader and a present one with a
\* non-numeric or negative value yields InvalidHeader, both with nothing
\* written.
C10_Claim ==
    (Completed("HttpWriter")
     /\ last.from \in {"HeadersClosed", "BodyWritten"}) =>
        LET present == HasHeaderCI(writer.headers, CONTENT_LENGTH)
            key == CHOOSE k \in DOMAIN writer.headers :
                       EqIgnoreAsciiCase(k, CONTENT_LENGTH)
        IN  /\ last.r = Ok =>
                present /\ IsSome(ParseUsize(writer.headers[key]))
            /\ ~present <=> last.r = MissingHeader
            /\ (present /\ ~IsSome(ParseUsize(writer.headers[key])))
                => last.r = InvalidHeader
            /\ last.r.tag \in {"MissingHeader", "InvalidHeader"}
                => stream = <<>>

\* the four operations that fill the writer
FillOps == {"write_status_line", "write_header", "finish_headers",
            "write_body"}

\* the states in which an operation is legal
LegalStates(op) ==
    CASE op = "write_status_line" -> {"Initial"}
      [] op = "write_header" -> {"StatusWritten", "HeadersOpen"}
      [] op = "finish_headers" -> {"StatusWritten", "HeadersOpen"}
      [] op = "write_body" -> {"HeadersClosed"}
      [] op = "complete_write" -> {"HeadersClosed", "BodyWritten"}

\* C29: for both writers, write_status_line, write_header, finish_headers
\* or write_body called in a state where it is not legal puts the writer in
\* Failed; from Failed every later call, complete_write included, returns
\* InvalidState, the writer stays in Failed, and nothing is ever written to
\* the stream of a writer that has been in Failed.
C29_FailedIsFinal ==
    [][/\ (last'.op \in FillOps /\ writer.state \notin LegalStates(last'.op))
            => (writer'.state = "Failed" /\ last'.r = InvalidState)
       /\ writer.state = "Failed"
            => (/\ last'.r = InvalidState
                /\ writer'.state = "Failed"
                /\ stream' = stream)
       /\ writer'.state = "Failed" => stream' = <<>>]_vars

\* a chunked writer that write_body put in Failed has been asked to
\* complete: InvalidState, nothing on the stream
C29_Witness ==
    /\ writer.kind = "ChunkedWriter"
    /\ writer.state = "Failed"
    /\ last = Call("complete_write", "Failed", InvalidState)
    /\ stream = <<>>

\* the writer holds a Content-Length header whose value is the length of
\* the body it holds
DeclaresBodyLen ==
    \E k \in DOMAIN writer.headers :
        /\ EqIgnoreAsciiCase(k, CONTENT_LENGTH)
        /\ ParseUsize(writer.headers[k]) = Some(BodyLenHeld)

\* s is the start of a response of the writer: the status line, then every
\* header once as name and value, then the blank line, then the body
InResponseOrder(s) ==
    LET n == Cardinality(DOMAIN writer.headers)
    IN  /\ Len(s) <= n + 3
        /\ Len(s) >= 1 => s[1] = PStatus(Unwrap(writer.status_line))
        /\ \A i \in 2 .. n + 1 : i <= Len(s) =>
                /\ s[i].t = "header"
                /\ s[i].name \in DOMAIN writer.headers
                /\ s[i] = PHeader(s[i].name, writer.headers[s[i].name])
                /\ \A j \in 2 .. i - 1 : s[j].name # s[i].name
        /\ Len(s) >= n + 2 => s[n + 2] = PCrlf
        /\ Len(s) = n + 3 =>
                (IsSome(writer.body) /\ s[n + 3] = PData(Unwrap(writer.body)))

\* C30: write_status_line, write_header, finish_headers and write_body of
\* the standard writer leave the stream as it is; bytes reach the stream
\* only in complete_write, after the state, the status line and the
\* Content-Length have passed its checks, and then as status line, headers,
\* blank line and body in that order, all of them when complete_write
\* returns Ok.
C30_OnlyCompleteWrites ==
    [][writer.kind = "HttpWriter" =>
        /\ last'.op \in FillOps => stream' = stream
        /\ stream' # stream =>
            /\ last'.op = "complete_write"
            /\ writer.state \in LegalStates("complete_write")
            /\ IsSome(writer.status_line)
            /\ DeclaresBodyLen
            /\ stream = <<>>
            /\ InResponseOrder(stream')
        /\ (last'.op = "complete_write" /\ last'.r = Ok) =>
            /\ InResponseOrder(stream')
            /\ Len(stream') = Cardinality(DOMAIN writer.headers) + 2
                                  + (IF IsSome(writer.body) THEN 1 ELSE 0)]_vars

\* the standard writer has written a response of two headers and a body of
\* two bytes
C30_Witness ==
    /\ Completed("HttpWriter")
    /\ last.r = Ok
    /\ Cardinality(DOMAIN writer.headers) = 2
    /\ Len(stream) = 5
    /\ stream[1].t = "status"
    /\ stream[2].t = "header" /\ stream[3].t = "header"
    /\ stream[4] = PCrlf
    /\ stream[5] = PData(<<"h", "i">>)

\* no two names of the map are equal ignoring case
NoTwoEqual(headers) ==
    \A j, k \in DOMAIN headers : EqIgnoreAsciiCase(j, k) => j = k

\* a name in title-case: every word capitalised, the rest lower-case
InTitleCase(name) == \A i \in DOMAIN name : name[i].caps = "first"

\* the map after is the map before with one insert under the name n: the
\* earlier names equal to n ignoring case are gone, every other header is
\* kept as it was
InsertedAs(before, after, n) ==
    /\ n \in DOMAIN after
    /\ \A k \in DOMAIN after :
            k # n => (k \in DOMAIN before /\ after[k] = before[k])
    /\ \A k \in DOMAIN before :
            IF EqIgnoreAsciiCase(k, n) THEN k = n \/ k \notin DOMAIN after
            ELSE k \in DOMAIN after

\* write_header has returned Ok
Inserts == last'.op = "write_header" /\ last'.r = Ok

\* C31: after any sequence of write_header calls on either writer the map
\* holds no two names that are equal ignoring case: each insert stores the
\* name in title-case and replaces any earlier header whose name is equal
\* ignoring case.
C31_Claim ==
    [][Inserts =>
        /\ NoTwoEqual(writer'.headers)
        /\ \E n \in DOMAIN writer'.headers :
                /\ InTitleCase(n)
                /\ InsertedAs(writer.headers, writer'.headers, n)]_vars

\* the pieces of the stream that announce or end a chunk of no bytes
ZeroSized(s) ==
    {i \in DOMAIN s : s[i] = PChunkSize(0) \/ s[i] = PLast
                      \/ (s[i].t = "data" /\ s[i].data = <<>>)}

\* C39: the chunked writer never emits a data chunk of no bytes: the only
\* zero-sized piece of its stream is the terminator, nothing follows it,
\* and after write_body with an empty body, or without write_body, a
\* successful complete_write emits behind the blank line the terminator
\* alone
C39_NoEmptyChunk ==
    writer.kind = "ChunkedWriter" =>
        /\ \A i \in ZeroSized(stream) : stream[i] = PLast /\ i = Len(stream)
        /\ \A i \in DOMAIN stream :
              stream[i].t = "chunksize" =>
                  (i < Len(stream) =>
                      /\ stream[i + 1].t = "data"
                      /\ stream[i] = PChunkSize(Len(stream[i + 1].data)))
        /\ (Completed("ChunkedWriter") /\ last.r = Ok
                /\ ~IsSome(writer.body)) =>
              /\ Len(stream) = Cardinality(DOMAIN writer.headers) + 3
              /\ stream[Len(stream) - 1] = PCrlf
              /\ stream[Len(stream)] = PLast

\* write_body was given an empty body and complete_write then wrote the
\* status line, the headers, the blank line and the terminator
C39_Witness ==
    /\ Completed("ChunkedWriter") /\ last.r = Ok
    /\ writer.state = "BodyWritten"
    /\ ~IsSome(writer.body)
    /\ stream[Len(stream)] = PLast
    /\ stream[Len(stream) - 1] = PCrlf

---------------------------------------------------------------------------
(* Properties of send_response, checked under SendSpec.                    *)

\* the indices of the header pieces on the stream whose name is name,
\* ignoring case
WireHeaders(name) ==
    {i \in DOMAIN stream :
        stream[i].t = "header" /\ EqIgnoreAsciiCase(stream[i].name, name)}

\* the indices of the Transfer-Encoding headers on the stream that list
\* chunked
WireChunked ==
    {i \in WireHeaders(TRANSFER_ENCODING) :
        \E j \in DOMAIN stream[i].value : stream[i].value[j].base = "chunked"}

\* the number of body bytes on the stream after the blank line
RECURSIVE DataBytes(_, _)
DataBytes(s, i) ==
    IF i > Len(s) THEN 0
    ELSE (IF s[i].t = "data" THEN Len(s[i].data) ELSE 0) + DataBytes(s, i + 1)

BlankLine == CHOOSE i \in DOMAIN stream : stream[i].t = "crlf" /\
                 \A j \in DOMAIN stream : stream[j].t = "crlf" => i <= j

\* C1: for every response send_response writes (it returns Ok), the stream
\* carries exactly one of a Content-Length header and a Transfer-Encoding
\* header listing chunked (names compared ignoring case), and a
\* Content-Length on the stream has as value the number of body bytes that
\* follow the blank line.
C1_ExactlyOneFraming ==
    (sent.done /\ sent.r = Ok) =>
        /\ Cardinality(WireHeaders(CONTENT_LENGTH)) + Cardinality(WireChunked) = 1
        /\ \A i \in WireHeaders(CONTENT_LENGTH) :
            ParseUsize(stream[i].value) = Some(DataBytes(stream, BlankLine + 1))

\* an HTTP/1.0 response that asked for chunked framing and declared its two
\* body bytes went out with Content-Length: 2 alone
C1_Witness ==
    /\ sent.done /\ sent.r = Ok /\ ~sent.chunked
    /\ response.version = "Http1_0"
    /\ TRANSFER_ENCODING \in DOMAIN response.headers
    /\ response.headers[TRANSFER_ENCODING] = CHUNKED
    /\ response.body = <<"h", "i">>
    /\ WireChunked = {}
    /\ \E i \in WireHeaders(CONTENT_LENGTH) : stream[i].value = V("2")

\* the response handed to send_response has a Transfer-Encoding header (name
\* compared ignoring case) that lists chunked
AsksChunked ==
    \E k \in DOMAIN response.headers :
        /\ EqIgnoreAsciiCase(k, TRANSFER_ENCODING)
        /\ contains_token_ci(response.headers[k], "chunked")

\* C11: for every HTTP/1.0 response whose headers include Transfer-Encoding
\* with a chunked token, send_response logs a warning, puts no
\* Transfer-Encoding header on the stream and, unless a write to the socket
\* fails, writes the response with one Content-Length header whose value is
\* the number of body bytes; no HTTP/1.0 response is written chunked.
C11_Claim ==
    (sent.done /\ response.version = "Http1_0") =>
        /\ ~sent.chunked
        /\ WireChunked = {}
        /\ AsksChunked =>
            /\ sent.warning
            /\ WireHeaders(TRANSFER_ENCODING) = {}
            /\ sent.r # IoError =>
                /\ sent.r = Ok
                /\ Cardinality(WireHeaders(CONTENT_LENGTH)) = 1
                /\ \A i \in WireHeaders(CONTENT_LENGTH) :
                    ParseUsize(stream[i].value)
                        = Some(DataBytes(stream, BlankLine + 1))

\* the tokens of a Transfer-Encoding value other than chunked, in their
\* order, followed by chunked
OthersThenChunked(value) ==
    SelectSeq(value, LAMBDA t : t.base # "chunked") \o CHUNKED

\* C33: for every HTTP/1.1 response whose Transfer-Encoding header lists a
\* chunked token, alone or with other tokens such as "gzip, chunked",
\* send_response chooses chunked framing and, unless a write to the socket
\* fails, writes the response: no Content-Length on the stream, one
\* Transfer-Encoding header holding the other tokens in their order followed
\* by chunked, and the body framed in chunks up to the terminator.
C33_Claim ==
    (sent.done /\ response.version = "Http1_1" /\ AsksChunked) =>
        /\ sent.chunked
        /\ sent.r # IoError =>
            /\ sent.r = Ok
            /\ WireHeaders(CONTENT_LENGTH) = {}
            /\ Cardinality(WireHeaders(TRANSFER_ENCODING)) = 1
            /\ \E k \in DOMAIN response.headers :
                    /\ EqIgnoreAsciiCase(k, TRANSFER_ENCODING)
                    /\ \A i \in WireHeaders(TRANSFER_ENCODING) :
                            stream[i].value
                                = OthersThenChunked(response.headers[k])
            /\ stream[Len(stream)] = PLast

\* some Transfer-Encoding header of the map, the name compared ignoring
\* case, lists a chunked token
ListsChunked(headers) ==
    \E k \in DOMAIN headers :
        /\ EqIgnoreAsciiCase(k, TRANSFER_ENCODING)
        /\ \E i \in DOMAIN headers[k] : headers[k][i].base = "chunked"

\* the map holds a Content-Length header, the name compared ignoring case
HoldsContentLength(headers) ==
    \E k \in DOMAIN headers : EqIgnoreAsciiCase(k, CONTENT_LENGTH)

\* C32: for every version and header map decide_chunking returns exactly one
\* of use_chunked and use_content_length as true; use_chunked exactly when
\* the version is HTTP/1.1 and a Transfer-Encoding header lists chunked; a
\* warning exactly when HTTP/1.0 meets a chunked token or chunked is chosen
\* and a Content-Length header is present.  Checked under DecideSpec.
C32_Claim ==
    call.op = "decide_chunking" =>
        /\ call.decision.use_chunked # call.decision.use_content_length
        /\ call.decision.use_chunked
                <=> (call.version = "Http1_1" /\ ListsChunked(call.headers))
        /\ call.decision.warning
                <=> \/ call.version = "Http1_0" /\ ListsChunked(call.headers)
                    \/ /\ call.decision.use_chunked
                       /\ HoldsContentLength(call.headers)

---------------------------------------------------------------------------
(* Properties of the workers that share the served directory and the       *)
(* request counter, checked under PostSpec and IdSpec.                     *)

\* the workers that have answered with this status
AnsweredWith(status) ==
    {w \in Workers : call.of[w].pc = "answered" /\ call.of[w].status = status}

\* C34: however the POSTs of different workers to one filename interleave,
\* a response is 201 only if the file did not exist immediately before that
\* request's write and 200 otherwise, and when the name did not exist and
\* every worker has answered, exactly one of them answered 201
C34_Claim ==
    call.op = "workers" =>
        /\ \A w \in AnsweredWith("Created") : ~call.of[w].before
        /\ \A w \in AnsweredWith("Ok") : call.of[w].before
        /\ (~call.was /\ \A w \in Workers : call.of[w].pc = "answered")
               => Cardinality(AnsweredWith("Created")) = 1

\* the calls of next_request_id so far, in the order they took effect
IdLog == IF call.op = "ids" THEN call.log ELSE <<>>

\* id b was handed out after id a and fewer than a whole round of the
\* counter later
Follows(a, b) == (b - a) % CounterModulus \in 1..(CounterModulus - 1)

\* C35: however the workers interleave, no two calls of next_request_id
\* less than one round of the counter apart return the same id, the ids of
\* one connection increase strictly up to wrap-around, and the root and
\* the canonical root of the context are those it was built with
C35_UniqueIds ==
    /\ \A i, j \in DOMAIN IdLog :
          (i < j /\ j - i < CounterModulus) =>
              /\ IdLog[i].id # IdLog[j].id
              /\ IdLog[j].id = (IdLog[i].id + (j - i)) % CounterModulus
              /\ IdLog[i].w = IdLog[j].w => Follows(IdLog[i].id, IdLog[j].id)
    /\ call.op = "ids" =>
          [context EXCEPT !.request_counter = 0]
              = ServerContext_new(FileDisk, <<"srv">>).ctx

\* two workers have taken ids across a wrap of the counter, one of them
\* twice, and a handler has resolved a path in between
C35_Witness ==
    /\ Len(IdLog) >= 3
    /\ \E i, j, k \in DOMAIN IdLog :
          /\ i < j /\ IdLog[i].w = IdLog[j].w /\ IdLog[j].id < IdLog[i].id
          /\ IdLog[k].w # IdLog[i].w
    /\ call.res.r = "Ok"

---------------------------------------------------------------------------
(* Properties of handle_client, checked under ConnSpec.                    *)

\* the headers hold a Connection header, the name compared ignoring case,
\* whose value is close ignoring case
AsksClose(headers) ==
    \E k \in DOMAIN headers :
        /\ EqIgnoreAsciiCase(k, CONNECTION)
        /\ EqIgnoreAsciiCase(headers[k], V("close"))

\* the step of the loop that answers what was read
Answers(op) == conn.pc = "parse" /\ conn'.step.op = op

\* C12: after the response to a parsed request, a Connection header (name
\* and value compared ignoring case) that says close makes handle_client
\* shut the socket down and leave the loop; any other request leaves the
\* socket open and the loop at its next read.
C12_Claim ==
    [][Answers("request") =>
        IF AsksClose(conn'.step.headers)
        THEN conn'.shutdown /\ conn'.pc = "returned"
        ELSE ~conn'.shutdown /\ conn'.pc = "read"]_vars

\* C13: when the parser fails, handle_client sends one error response, its
\* Content-Type negotiated from the Accept header the error carries, and
\* then closes: it is not back at a read.
C13_Claim ==
    [][Answers("parse_error") =>
        /\ sent'.done
        /\ response'.headers[CONTENT_TYPE] =
            V(ContentTypeText(AcceptedType(HeaderGet(conn'.step.headers, ACCEPT))))
        /\ conn'.pc = "returned"]_vars

WriterErrors ==
    {"InvalidState", "MissingHeader", "InvalidHeader", "ContentLengthMismatch"}

Ended == conn.peer_closed \/ conn.shutdown \/ conn.io_error

\* C15: once the peer has closed (a read returned 0 bytes), a Connection:
\* close has been honored or a read or write on the socket has failed,
\* handle_client takes no more bytes of a request from the connection.
C15_Claim ==
    [][Ended =>
        ~(/\ conn'.request_bytes # conn.request_bytes
          /\ conn'.request_bytes \in {"partial", "complete"})]_vars

\* the status lines among the pieces of a stream
StatusLines(s) == {i \in DOMAIN s : s[i].t = "status"}

\* the entries of the connection's answers are in the order of their ids
InParseOrder(answers) ==
    \A i, j \in DOMAIN answers : i < j => answers[i].req_id < answers[j].req_id

\* C36: on one connection every successfully parsed request leads to
\* exactly one call of send_response, made in the step that parsed it; the
\* responses follow one another in the order their requests were parsed,
\* the bytes of a step being those of one response, and nothing is written
\* or answered in a step that did not parse what was read
C36_OneResponseEach ==
    [][/\ Answers("request") =>
            /\ conn'.answers =
                   Append(conn.answers, [req_id |-> conn.req_id,
                                         op |-> "request", sends |-> 1])
            /\ sent'.done
            /\ Cardinality(StatusLines(stream')) <= 1
            /\ stream' # <<>> =>
                   stream'[1] = PStatus(StatusLineText(response'.version,
                                                       response'.status))
       /\ InParseOrder(conn'.answers)
       /\ (stream' # stream \/ conn'.answers # conn.answers) =>
            /\ conn.pc = "parse"
            /\ conn.request_bytes # "empty"
            /\ Len(conn'.answers) = Len(conn.answers) + 1]_vars

\* two requests of one connection have been answered, the second by the
\* 404 of the router, each with one call of send_response that succeeded
C36_Witness ==
    /\ Len(conn.answers) = 2
    /\ \A i \in 1..2 : conn.answers[i].op = "request"
    /\ response.status = "NotFound"
    /\ sent.done /\ sent.r = Ok
    /\ Cardinality(StatusLines(stream)) = 1

---------------------------------------------------------------------------
(* Properties of the read loop of handle_client, checked under ReaderSpec. *)

\* the bytes gathered hold the head of a request with a Content-Length N > 0
DeclaresBody(bytes) ==
    /\ HasBoundary(bytes)
    /\ SubSeq(bytes, 1, Len(PostLine)) = PostLine

\* the bytes gathered after the CRLF CRLF
AfterBoundary(bytes) ==
    SubSeq(bytes, Unwrap(find_boundary(bytes)) + 5, Len(bytes))

\* C37: for a request with Content-Length N > 0 the reader hands the bytes
\* to the parser only after N body bytes behind the CRLF CRLF have been
\* received or an I/O error has occurred, so that the parsed request holds
\* the whole body also when it arrives in a later read than the headers
C37_Claim ==
    [][(conn.pc = "parse" /\ parsed' # parsed
            /\ DeclaresBody(conn.request_bytes)) =>
        /\ \/ Len(AfterBoundary(conn.request_bytes)) >= Len(conn.body)
           \/ conn.io_error
        /\ parsed'.result.kind = "Ok"
        /\ parsed'.result.request.body = Some(body_of(conn.body))]_vars

---------------------------------------------------------------------------
(* Properties of the parser, checked under ParseSpec.                      *)

\* the characters of a text
Range(s) == {s[i] : i \in DOMAIN s}

\* the request holds a CRLF CRLF
ContainsBoundary(request) ==
    \E i \in 1 .. Len(request) - 3 :
        /\ request[i] = CR /\ request[i + 1] = LF
        /\ request[i + 2] = CR /\ request[i + 3] = LF

\* the bytes before the first CRLF CRLF of a request that holds one
HeaderRegion(request) ==
    SubSeq(request, 1,
           (CHOOSE i \in 1 .. Len(request) - 3 :
                /\ SubSeq(request, i, i + 3) = <<CR, LF, CR, LF>>
                /\ \A j \in 1 .. i - 1 :
                       SubSeq(request, j, j + 3) # <<CR, LF, CR, LF>>) - 1)

\* the bytes after the first CRLF CRLF
BodyBytes(request) ==
    SubSeq(request, Len(HeaderRegion(request)) + 5, Len(request))

\* the request line: the header region up to its first CRLF
RequestLine(request) ==
    LET region == HeaderRegion(request)
        Ends(i) == i < Len(region) /\ region[i] = CR /\ region[i + 1] = LF
    IN  IF \E i \in DOMAIN region : Ends(i)
        THEN SubSeq(region, 1,
                    (CHOOSE i \in DOMAIN region :
                         Ends(i) /\ \A j \in 1 .. i - 1 : ~Ends(j)) - 1)
        ELSE region

\* the tokens of the request line
RequestLineTokens(request) == split_whitespace(RequestLine(request))

\* the header lines: the lines of the header region after the request line
HeaderLines(request) ==
    LET lines == Lines(HeaderRegion(request))
    IN  IF lines = <<>> THEN <<>> ELSE Tail(lines)

\* every header line that is not empty has a colon
HeaderLinesWellFormed(request) ==
    \A i \in DOMAIN HeaderLines(request) :
        HeaderLines(request)[i] # <<>> => ":" \in Range(HeaderLines(request)[i])

\* the headers of the request: each name with the value of the last line
\* that gives it
HeadersOfRequest(request) ==
    LET lines == HeaderLines(request)
        Named == {i \in DOMAIN lines : ":" \in Range(lines[i])}
        NameAt(i) == Trim(Unwrap(split_once(lines[i]))[1])
        ValueAt(i) == Trim(Unwrap(split_once(lines[i]))[2])
    IN  [name \in {NameAt(i) : i \in Named} |->
            ValueAt(CHOOSE i \in Named :
                        /\ NameAt(i) = name
                        /\ \A j \in Named : NameAt(j) = name => j <= i)]

\* the parser has returned a request
ReturnedRequest == parsed.pc # "input" /\ parsed.result.kind = "Ok"

\* the parser has returned a parse error with this status
ReturnedError(status) ==
    /\ parsed.pc # "input"
    /\ parsed.result.kind = "Err"
    /\ parsed.result.error.status = status

\* C16: a request the parser returns has a body if and only if its
\* Content-Length header parses to a value N greater than 0, and the body is
\* then exactly the next N bytes after the CRLF CRLF; with fewer than N
\* bytes there the parser returns a 400 and no request.
C16_Claim ==
    /\ ReturnedRequest =>
           LET request == parsed.result.request
               N == content_length_of(request.headers)
           IN  /\ IsSome(request.body) <=> N > 0
               /\ IsSome(request.body) =>
                      /\ Len(BodyBytes(parsed.request)) >= N
                      /\ Unwrap(request.body)
                             = SubSeq(BodyBytes(parsed.request), 1, N)
    /\ (/\ parsed.pc # "input"
        /\ ContainsBoundary(parsed.request)
        /\ content_length_of(HeadersOfRequest(parsed.request))
               > Len(BodyBytes(parsed.request)))
           => ~ReturnedRequest

\* C17: for a request that holds a CRLF CRLF the parser returns either a
\* request whose Display form parses to a request equal to it in method,
\* path, version, headers and body, or a parse error with a status and
\* with headers that are headers of the request.
C17_Claim ==
    (parsed.pc # "input" /\ ContainsBoundary(parsed.request)) =>
        \/ /\ parsed.result.kind = "Ok"
           /\ parsed.pc = "reparsed" =>
                  parsed.again = Parsed(parsed.result.request)
        \/ /\ parsed.result.kind = "Err"
           /\ parsed.result.error.status \in {"BadRequest", "MethodNotAllowed"}
           /\ DOMAIN parsed.result.error.headers
                  \subseteq DOMAIN HeadersOfRequest(parsed.request)

\* the request line has three tokens and the first is not a method the
\* parser knows
UnknownMethod(request) ==
    /\ ContainsBoundary(request)
    /\ Len(RequestLineTokens(request)) = 3
    /\ Str(RequestLineTokens(request)[1]) \notin {"GET", "POST", "PUT", "DELETE"}

\* C18: for a request that holds a CRLF CRLF, whose request line has exactly
\* three tokens and whose method is not GET, POST, PUT or DELETE, the parser
\* returns a 405 parse error carrying the headers of the request.
C18_Claim ==
    (parsed.pc # "input" /\ UnknownMethod(parsed.request)) =>
        parsed.result = Failed("MethodNotAllowed",
                               HeadersOfRequest(parsed.request))

\* C18, amended: the same, for the requests whose header lines all have a
\* colon; a header line without one is a 400 before the method is looked at.
C18_UnknownMethod ==
    (/\ parsed.pc # "input"
     /\ UnknownMethod(parsed.request)
     /\ HeaderLinesWellFormed(parsed.request)) =>
        parsed.result = Failed("MethodNotAllowed",
                               HeadersOfRequest(parsed.request))

\* a request with an unknown method and a header was answered with a 405
\* that carries the header
C18_Witness ==
    /\ parsed.pc = "parsed"
    /\ UnknownMethod(parsed.request)
    /\ HeaderLinesWellFormed(parsed.request)
    /\ HeadersOfRequest(parsed.request) # <<>>
    /\ ReturnedError("MethodNotAllowed")
    /\ parsed.result.error.headers = HeadersOfRequest(parsed.request)

\* C19: the parser returns a 400 with no headers for the empty input and for
\* every input without a CRLF CRLF, and a 400 for every input whose request
\* line does not split on whitespace into exactly three tokens.
C19_Claim ==
    parsed.pc # "input" =>
        /\ ~ContainsBoundary(parsed.request) =>
               parsed.result = Failed("BadRequest", <<>>)
        /\ (/\ ContainsBoundary(parsed.request)
            /\ Len(RequestLineTokens(parsed.request)) # 3) =>
               ReturnedError("BadRequest")

\* the request line has three tokens, a method the parser knows, and the
\* header lines all have a colon
KnownMethod(request) ==
    /\ ContainsBoundary(request)
    /\ Len(RequestLineTokens(request)) = 3
    /\ Str(RequestLineTokens(request)[1]) \in {"GET", "POST", "PUT", "DELETE"}
    /\ HeaderLinesWellFormed(request)

\* C20: a request line whose version is HTTP/1.0 or HTTP/1.1 is accepted and
\* the request records that version; any other version is a 400.
C20_Claim ==
    (parsed.pc # "input" /\ KnownMethod(parsed.request)) =>
        LET version == Str(RequestLineTokens(parsed.request)[3])
        IN  IF version \in {"HTTP/1.0", "HTTP/1.1"}
            THEN /\ ReturnedRequest
                 /\ VersionText(parsed.result.request.status_line.version)
                        = version
            ELSE ReturnedError("BadRequest")

\* the lines after the request line: those of the header region, and for
\* a request without a CRLF CRLF those of all its bytes
LinesAfterRequestLine(request) ==
    LET lines == IF ContainsBoundary(request)
                 THEN Lines(HeaderRegion(request)) ELSE Lines(request)
    IN  IF lines = <<>> THEN <<>> ELSE Tail(lines)

\* the lines among these that are not empty and hold no colon
Colonless(lines) ==
    {i \in DOMAIN lines : lines[i] # <<>> /\ ":" \notin Range(lines[i])}

\* the lines before the first one without a colon
BeforeColonless(lines) ==
    SubSeq(lines, 1,
           (CHOOSE i \in Colonless(lines) :
                \A j \in Colonless(lines) : i <= j) - 1)

\* the header map of these lines: each name, trimmed, with the trimmed
\* value of the last line that gives it, the lines split at the first colon
HeadersOfLines(lines) ==
    LET Named == {i \in DOMAIN lines : ":" \in Range(lines[i])}
        NameAt(i) == Trim(Unwrap(split_once(lines[i]))[1])
        ValueAt(i) == Trim(Unwrap(split_once(lines[i]))[2])
    IN  [name \in {NameAt(i) : i \in Named} |->
            ValueAt(CHOOSE i \in Named :
                        /\ NameAt(i) = name
                        /\ \A j \in Named : NameAt(j) = name => j <= i)]

\* C38: for every request in which some header line after the request line
\* holds no ':', the parser returns a 400 whose header map holds exactly
\* the headers of the lines before that line, whatever the request line
C38_Claim ==
    (/\ parsed.pc # "input"
     /\ Colonless(LinesAfterRequestLine(parsed.request)) # {}) =>
        parsed.result =
            Failed("BadRequest",
                   HeadersOfLines(BeforeColonless(
                       LinesAfterRequestLine(parsed.request))))

\* C38, amended: the same, for the requests that hold a CRLF CRLF; without
\* one the parser returns a 400 with no headers before it looks at a line
C38_ColonlessLine ==
    (/\ parsed.pc # "input"
     /\ ContainsBoundary(parsed.request)
     /\ Colonless(HeaderLines(parsed.request)) # {}) =>
        parsed.result =
            Failed("BadRequest",
                   HeadersOfLines(BeforeColonless(HeaderLines(parsed.request))))

\* a request with an unknown method, a Host header and then a line without
\* a colon was answered with a 400 that carries the Host header
C38_Witness ==
    /\ parsed.pc = "parsed"
    /\ ContainsBoundary(parsed.request)
    /\ UnknownMethod(parsed.request)
    /\ Colonless(HeaderLines(parsed.request)) = {2}
    /\ ReturnedError("BadRequest")
    /\ DOMAIN parsed.result.error.headers = {<<"H", "o", "s", "t">>}

---------------------------------------------------------------------------
(* Properties of the compression middleware, checked under EchoSpec.       *)

\* the middleware has wrapped a response
HasWrapped == call.op \in {"echo_handler", "apply"}

\* the q a token of the header asks for, in tenths: 1.0 when it gives none
TokenQ(token) ==
    IF IsSome(token.q) THEN QTable[Str(Unwrap(token.q))] ELSE 10

\* the encoding a token names, None for a name that is not recognized
TokenEncoding(token) ==
    CASE Str(token.name) = "gzip" -> Some("gzip")
      [] Str(token.name) = "deflate" -> Some("deflate")
      [] Str(token.name) \in {"br", "brotli"} -> Some("brotli")
      [] OTHER -> None

\* the tokens that qualify: a recognized name and a q above 0
Qualifying(tokens) ==
    {i \in DOMAIN tokens :
        IsSome(TokenEncoding(tokens[i])) /\ TokenQ(tokens[i]) > 0}

\* C25: CompressionMiddleware::apply chooses identity for a body shorter
\* than 1024 bytes, for a request without Accept-Encoding and for a header
\* none of whose tokens names a recognized encoding with q > 0; otherwise it
\* chooses the encoding of a qualifying token that no qualifying token
\* exceeds in q, a token without q counting as 1.0.
C25_HighestQ ==
    HasWrapped =>
        IF \/ Len(call.original.body) < MINIMUM_BODY_SIZE
           \/ ~IsSome(call.accept_encoding)
           \/ Qualifying(call.tokens) = {}
        THEN call.encoding = "identity"
        ELSE \E i \in Qualifying(call.tokens) :
                /\ call.encoding = Unwrap(TokenEncoding(call.tokens[i]))
                /\ \A j \in Qualifying(call.tokens) :
                        TokenQ(call.tokens[j]) <= TokenQ(call.tokens[i])

\* a body of 1024 bytes and a header whose second token has the higher q:
\* the second token's encoding is chosen
C25_Witness ==
    /\ call.op = "echo_handler"
    /\ Len(call.original.body) = MINIMUM_BODY_SIZE
    /\ Len(call.tokens) = 2
    /\ Qualifying(call.tokens) = {1, 2}
    /\ TokenQ(call.tokens[1]) < TokenQ(call.tokens[2])
    /\ call.encoding = Unwrap(TokenEncoding(call.tokens[2]))
    /\ call.encoding # Unwrap(TokenEncoding(call.tokens[1]))

\* the names of the wrapped response's headers that are Content-Length,
\* compared without case
ContentLengthNames ==
    {k \in DOMAIN response.headers : EqIgnoreAsciiCase(k, CONTENT_LENGTH)}

\* C26: what the middleware wrapped exposes the status line of the original,
\* every header of the original other than Content-Length unchanged, exactly
\* one Content-Length header (names compared without case) holding the
\* length of the body it exposes, and Content-Encoding exactly when the
\* encoding is not identity.
C26_Claim ==
    HasWrapped =>
        /\ response.version = call.original.version
        /\ response.status = call.original.status
        /\ \A k \in DOMAIN call.original.headers :
                ~EqIgnoreAsciiCase(k, CONTENT_LENGTH) =>
                    /\ k \in DOMAIN response.headers
                    /\ response.headers[k] = call.original.headers[k]
        /\ Cardinality(ContentLengthNames) = 1
        /\ \A k \in ContentLengthNames :
                response.headers[k] = V(UsizeToString(Len(response.body)))
        /\ (\E k \in DOMAIN response.headers :
                EqIgnoreAsciiCase(k, CONTENT_ENCODING))
                    <=> call.encoding # "identity"

---------------------------------------------------------------------------
(* Properties of Router::route, checked under RouteSpec.                   *)

\* the request matched no route and its response went out
Written404 ==
    /\ call.op = "route"
    /\ Router_route(call.request) = "none"
    /\ sent.done /\ sent.r = Ok

\* the value of the request's Accept header, None when the request has none
AcceptOf(headers) ==
    IF ACCEPT \in DOMAIN headers THEN Some(headers[ACCEPT]) ELSE None

\* the type negotiated from an Accept value: one of the four the server
\* knows, text/plain for any other value and for no header
NegotiatedType(accept) ==
    IF accept \in {Some(V("text/html")), Some(V("application/json")),
                   Some(V("text/plain")), Some(V("application/octet-stream"))}
    THEN Unwrap(accept)
    ELSE V("text/plain")

\* the body of the 404 in the shape of a type
Shape404(type) ==
    CASE type = V("text/html") ->
            "<h1>404 Not Found</h1><p>Route not found</p>"
      [] type = V("application/json") ->
            "{\"error\": \"Route not found\", \"code\": 404}"
      [] type = V("text/plain") -> "Route not found"
      [] type = V("application/octet-stream") -> ""

RECURSIVE WireText(_, _)
\* the text of the body bytes on the stream from piece i on
WireText(s, i) ==
    IF i > Len(s) THEN ""
    ELSE (IF s[i].t = "data" THEN s[i].data ELSE "") \o WireText(s, i + 1)

---------------------------------------------------------------------------
(* Properties of the matching of Router::route, checked under MatchSpec.   *)

\* a segment of a pattern written {name}
IsCapture(segment) == segment \in {"{text}", "{filename}"}

\* the route qualifies for the request: the same method, as many segments,
\* and every literal segment equal
Qualifies(route, request) ==
    /\ route.method = request.method
    /\ Len(route.path) = Len(request.path)
    /\ \A i \in DOMAIN route.path :
          ~IsCapture(route.path[i]) => route.path[i] = request.path[i]

\* C40: Router::route invokes the handler of the first registered route
\* that qualifies, each {name} of its pattern bound to the request's
\* segment at the same position, and no handler when no route qualifies
C40_FirstQualifying ==
    call.op = "match" =>
        LET routes == call.routes
            good == {i \in DOMAIN routes : Qualifies(routes[i], call.request)}
        IN  IF good = {} THEN call.handler = "none"
            ELSE \E i \in good :
                    /\ \A j \in good : i <= j
                    /\ call.handler = routes[i].handler
                    /\ \A p \in DOMAIN routes[i].path :
                          routes[i].path[p] = "{text}" =>
                              call.params["text"] = call.request.path[p]
                    /\ \A p \in DOMAIN routes[i].path :
                          routes[i].path[p] = "{filename}" =>
                              call.params["filename"] = call.request.path[p]

\* GET /files/hi on the router with the overlapping route: both the default
\* route and the later one qualify, and file_handler is invoked with
\* filename bound to hi
C40_Witness ==
    /\ call.op = "match"
    /\ call.routes = Router_with_overlap
    /\ call.request = [method |-> "Get", path |-> <<"", "files", "hi">>]
    /\ call.handler = "file_handler"
    /\ call.params = ("filename" :> "hi")

---------------------------------------------------------------------------
(* Properties of the /files handler, checked under FileSpec and FsSpec.    *)

\* file_handler takes a request of this method in this step
Serves(method) ==
    call.op = "idle" /\ call'.op = "file_handler" /\ call'.method = method

\* the file a filename names under the root
NamedFile(filename) ==
    Append(context.canon_path, Str(percent_decode(filename).s))

\* C21: a POST /files/{filename} that the sandbox accepts with Write intent
\* and whose write succeeds leaves the file of that name under the root
\* holding exactly the bytes of the request body, and is answered 201 if
\* the file did not exist before the request and 200 if it did.
C21_Claim ==
    [][(/\ Serves("Post")
        /\ call'.res.r = "Ok"
        /\ fs_write(disk, NamedFile(call'.name), call'.body).r = "Ok") =>
            /\ fs_read(disk', NamedFile(call'.name)).r = "Ok"
            /\ fs_read(disk', NamedFile(call'.name)).data = call'.body
            /\ response'.status =
                   IF fs_read(disk, NamedFile(call'.name)).r = "Ok"
                   THEN "Ok" ELSE "Created"]_vars

\* C22: for GET and for POST on /files/{filename}, a sandbox result of
\* Forbidden is answered 403, NotFound 404, Invalid 404 and Io 500, and no
\* file is read or written.
C22_RefusedStatus ==
    [][((Serves("Get") \/ Serves("Post"))
        /\ call'.res.r \in {"Forbidden", "NotFound", "Invalid", "Io"}) =>
            /\ response'.status =
                   CASE call'.res.r = "Forbidden" -> "Forbidden"
                     [] call'.res.r = "NotFound" -> "NotFound"
                     [] call'.res.r = "Invalid" -> "NotFound"
                     [] call'.res.r = "Io" -> "InternalServerError"
            /\ call'.read = None
            /\ disk' = disk]_vars

\* a GET of a name that is a link to itself was refused as Io and answered
\* 500 on the wire, the filesystem being as it was
C22_Witness ==
    /\ call.op = "file_handler" /\ call.method = "Get"
    /\ disk[<<"srv", "b">>] = Link(<<"srv", "b">>)
    /\ call.res.r = "Io"
    /\ response.status = "InternalServerError"
    /\ sent.done /\ sent.r = Ok
    /\ stream[1] = PStatus("HTTP/1.1 500 Internal Server Error\r\n")

\* the offsets a Range header of the requests can name
Offsets == 0 .. 9

\* the header is 'bytes=S-E', or 'bytes=S-' when E is absent
IsRangeHeader(header, S, E) ==
    Str(header) = "bytes=" \o UsizeToString(S) \o "-"
                      \o (IF IsSome(E) THEN UsizeToString(Unwrap(E)) ELSE "")

\* file_handler has answered a GET with the Range header 'bytes=S-[E]' for
\* a file that exists
RangeGet(S, E) ==
    /\ call.op = "file_handler" /\ call.method = "Get"
    /\ call.res.r = "Ok"
    /\ IsSome(call.range)
    /\ IsRangeHeader(Unwrap(call.range), S, E)

\* the bytes of the file the request names
FileBytes == fs_read(disk, NamedFile(call.name)).data

\* the last offset of the range, size - 1 when E is absent
LastOffset(E) == IF IsSome(E) THEN Unwrap(E) ELSE Len(FileBytes) - 1

\* C23: a GET with the Range header 'bytes=S-[E]' on an existing file that
\* is empty, or with S > E, or with E >= file size (E being size - 1 when
\* absent), is answered 400 and no file bytes are read or sent.
C23_InvalidRange ==
    \A S \in Offsets, E \in {None} \cup {Some(n) : n \in Offsets} :
        (/\ RangeGet(S, E)
         /\ \/ Len(FileBytes) = 0
            \/ S > LastOffset(E)
            \/ LastOffset(E) >= Len(FileBytes)) =>
            /\ response.status = "BadRequest"
            /\ call.read = None
            /\ \A i \in DOMAIN stream :
                   stream[i].t = "data" => stream[i].data = response.body

\* GET /files/f with Range: bytes=2-5 on the file of three bytes was answered
\* 400 on the wire
C23_Witness ==
    /\ RangeGet(2, Some(5))
    /\ call.name = <<"f">>
    /\ Len(FileBytes) = 3
    /\ response.status = "BadRequest"
    /\ sent.done /\ sent.r = Ok
    /\ stream[1] = PStatus("HTTP/1.1 400 Bad Request\r\n")

\* C24: a GET with a valid range (S <= E < size, E being size - 1 when
\* absent) on a file of N bytes is answered 206 with exactly the bytes at
\* offsets S..E, Content-Length E-S+1 and Content-Range 'bytes S-E/N'.
C24_PartialContent ==
    \A S \in Offsets, E \in {None} \cup {Some(n) : n \in Offsets} :
        (/\ RangeGet(S, E)
         /\ S <= LastOffset(E)
         /\ LastOffset(E) < Len(FileBytes)) =>
            /\ response.status = "PartialContent"
            /\ response.body = SubSeq(FileBytes, S + 1, LastOffset(E) + 1)
            /\ response.headers[CONTENT_LENGTH]
                   = V(UsizeToString(LastOffset(E) - S + 1))
            /\ response.headers[CONTENT_RANGE]
                   = V("bytes " \o UsizeToString(S) \o "-"
                           \o UsizeToString(LastOffset(E)) \o "/"
                           \o UsizeToString(Len(FileBytes)))

\* GET /files/f with Range: bytes=1-2 on the file 012 was answered 206 with
\* the bytes 12 on the wire
C24_Witness ==
    /\ RangeGet(1, Some(2))
    /\ call.name = <<"f">>
    /\ FileBytes = <<"0", "1", "2">>
    /\ response.status = "PartialContent"
    /\ response.body = <<"1", "2">>
    /\ sent.done /\ sent.r = Ok
    /\ stream[1] = PStatus("HTTP/1.1 206 Partial Content\r\n")
    /\ stream[Len(stream)] = PData(<<"1", "2">>)

\* the Connection value owed to a request: close when the client asked for
\* it, otherwise keep-alive for HTTP/1.1 and close for HTTP/1.0
OwedConnection(version, connection_header) ==
    IF EqIgnoreAsciiCase(connection_header, V("close")) THEN V("close")
    ELSE IF version = "Http1_1" THEN V("keep-alive")
    ELSE V("close")

\* C28: every response the builders make (here the file, range and error
\* responses of file_handler) carries a Content-Length that is the length
\* of its body and a Connection header that is close when the client asked
\* for close, otherwise keep-alive on HTTP/1.1 and close on HTTP/1.0.
C28_Claim ==
    call.op = "file_handler" =>
        /\ \E k \in DOMAIN response.headers :
                /\ EqIgnoreAsciiCase(k, CONTENT_LENGTH)
                /\ ParseUsize(response.headers[k]) = Some(Len(response.body))
        /\ \E k \in DOMAIN response.headers :
                /\ EqIgnoreAsciiCase(k, CONNECTION)
                /\ response.headers[k]
                        = OwedConnection(response.version, call.connection)

---------------------------------------------------------------------------
(* Properties of the sandbox and of the /files handler, checked under      *)
(* FsSpec.                                                                 *)

\* base is a component-wise prefix of path
IsPrefix(base, path) ==
    /\ Len(base) <= Len(path)
    /\ \A i \in DOMAIN base : path[i] = base[i]

\* a call of resolve_path has returned, on its own or inside file_handler
Resolving == call.op # "idle" /\ call.res.r # "None"

\* the segments of a decoded path, '\' taken as a separator too
Segments(decoded) ==
    Split([i \in DOMAIN decoded |->
              IF decoded[i] = "\\" THEN "/" ELSE decoded[i]], "/")

\* a decoded path has a '.' or a '..' segment
HasDotSegment(decoded) ==
    LET segs == Segments(decoded)
    IN  \E i \in DOMAIN segs : segs[i] \in {<<".">>, <<".", ".">>}

\* a decoded path climbs with '..' or starts at the filesystem root
Climbs(decoded) ==
    LET segs == Segments(decoded)
    IN  \/ \E i \in DOMAIN segs : segs[i] = <<".", ".">>
        \/ segs[1] = <<>>

\* C4: whenever resolve_path returns Ok, for Read or for Write, the path it
\* returns has the canonical root as a component-wise prefix, whatever
\* links lie under the root and however the request path is encoded.
C4_ResolvedUnderRoot ==
    (Resolving /\ call.res.r = "Ok") =>
        IsPrefix(context.canon_path, call.res.path)

\* the server was started on the link /pub, /srv/b is a link leading out
\* of the root, and the percent-encoded name %62 resolved for Write to
\* /srv/b
C4_Witness ==
    /\ call.op = "resolve_path" /\ call.method = "Write"
    /\ call.name = <<"%", "6", "2">>
    /\ context.root_path = <<"pub">>
    /\ disk[<<"srv", "b">>].t = "link"
    /\ call.res = Resolved(<<"srv", "b">>, TRUE)

\* C5: no file whose real location is outside the canonical root is ever
\* created or modified: everything outside the root stays as it was.
C5_Claim ==
    \A path \in DOMAIN disk :
        ~IsPrefix(context.canon_path, path) =>
            path \in DOMAIN Outside /\ disk[path] = Outside[path]

\* C6: a request path that decodes, holds no control and no reserved
\* character, is not absolute, and has a '.' or '..' segment in any position
\* after decoding makes resolve_path return Forbidden, for either intent.
C6_Claim ==
    LET dec == percent_decode(call.name)
    IN  (/\ Resolving
         /\ dec.ok
         /\ dec.s # <<>>
         /\ \A i \in DOMAIN dec.s :
                ~IsAsciiControl(dec.s[i]) /\ dec.s[i] \notin invalid_win_chars
         /\ dec.s[1] # "/"
         /\ HasDotSegment(dec.s))
        => call.res.r = "Forbidden"

\* a GET whose filename holds a percent-encoded separator and decodes to a
\* path that climbs with '..' or starts at the filesystem root
TraversalGet ==
    LET dec == percent_decode(call.name)
    IN  /\ call.op = "file_handler" /\ call.method = "Get"
        /\ HasEncodedSeparator(call.name)
        /\ dec.ok
        /\ Climbs(dec.s)

====
